---- MODULE Spec2Model ----
(***************************************************************************)
(* A model of the directory scraper's crawl core: URL normalisation       *)
(* (scraper/utils.py, scraper/models.py), the pagination engine           *)
(* (scraper/pagination.py), the run store (scraper/storage.py) and the    *)
(* crawl orchestrator (scraper/pipeline.py).                               *)
(*                                                                         *)
(* A URL is a record [segs, slash, query, frag] over one origin           *)
(* "http://a": segs the path segments, slash whether the path ends in     *)
(* "/", query a sequence of [k, v] pairs, frag the fragment ("" when the  *)
(* URL has no "#").  UrlStr renders it; hashes (sha256) are modelled as   *)
(* the string they hash, i.e. as collision free.                           *)
(***************************************************************************)
EXTENDS Integers, Sequences, FiniteSets, TLC

VARIABLES
    pc,               \* where run() stands
    force,            \* run(force=...)
    max_pages,        \* run(max_pages=...); 0 stands for None (both falsy)
    max_runtime,      \* run(max_runtime=...); 0 stands for None (both falsy)
    respect_robots,   \* config.respect_robots
    run_id,           \* pipeline.run_id == metadata.run_id
    runs,             \* store: table runs, run_id -> row
    events,           \* store: table events, in insertion order
    n_prior,          \* how many rows of events the store held before this run
    clock,            \* datetime.utcnow(), in seconds since metadata.started_at
    start_time,       \* _crawl: start_time
    processed,        \* _crawl: processed
    task_queue,       \* _crawl: task_queue
    seen_urls,        \* PaginationDetector.seen_urls
    records,          \* pipeline.records
    seen_record_ids,  \* pipeline.seen_record_ids
    metadata,         \* pipeline.metadata (RunMetadata)
    written,          \* what RecordWriter.write_jsonl was given
    fetcher_made,     \* whether SmartFetcher(config) was constructed
    fetch_calls,      \* number of fetcher.fetch calls made
    last_step,        \* what the last loop iteration did
    link_tasks,       \* every task emitted by link discovery, in order
    extract_errors,   \* number of extraction errors raised so far
    base_url,         \* run(start_url=...) == PaginationDetector.base_url
    calls,            \* number of calls made on the PaginationDetector
    produced_ids,     \* the record_id of every record produced so far
    produced_n,       \* number of records produced so far
    site,             \* the site crawled: "any" (a fetch may return any page) or "A"
    last_empty,       \* whether the page fetched last was an empty page
    fn_args,          \* a function called on its own: its name and arguments
    fn_result,        \* ... and what it returned
    limiter           \* a RateLimiter and the coroutines calling acquire() on it

vars == <<pc, force, max_pages, max_runtime, respect_robots, run_id, runs,
          events, n_prior, clock, start_time, processed, task_queue,
          seen_urls, records, seen_record_ids, metadata, written,
          fetcher_made, fetch_calls, last_step, link_tasks, extract_errors,
          base_url, calls, produced_ids, produced_n, site, last_empty,
          fn_args, fn_result, limiter>>

(***************************************************************************)
(* Bounds of the model.                                                    *)
(***************************************************************************)
MaxClock == 2        \* the clock stops advancing here
MaxPagesArg == 2     \* max_pages is drawn from 0..MaxPagesArg
MaxRuntimeArg == 1   \* max_runtime is None (0) or MaxRuntimeArg seconds
MaxGenPages == 2     \* generate_numbered_urls: max_pages is drawn from 1..MaxGenPages
MaxCalls == 3        \* calls made on one PaginationDetector on its own

(***************************************************************************)
(* Strings.  str.lower() and str.strip() on the finite alphabet of the    *)
(* model: the only strings with an upper-case letter or outer blanks are  *)
(* the ones listed.                                                        *)
(***************************************************************************)
Lower(s) ==
    CASE s = "People" -> "people"
      [] s = "Next" -> "next"
      [] s = "Bob" -> "bob"
      [] s = "Ann " -> "ann "
      [] s = "ANN@X.ORG" -> "ann@x.org"
      [] s = "Dr. Jane Doe" -> "dr. jane doe"
      [] s = "DR. JANE DOE" -> "dr. jane doe"
      [] s = "Professor" -> "professor"
      [] s = "Faculty Profile" -> "faculty profile"
      [] OTHER -> s

Strip(s) ==
    CASE s = "Ann " -> "Ann"
      [] s = "ann " -> "ann"
      [] s = " 2 " -> "2"
      [] OTHER -> s

IsDigit(s) == s \in {"1", "2", "3"}

RECURSIVE Join(_, _)
Join(parts, sep) ==
    IF parts = <<>> THEN ""
    ELSE IF Len(parts) = 1 THEN parts[1]
    ELSE parts[1] \o sep \o Join(Tail(parts), sep)

(***************************************************************************)
(* URLs.                                                                   *)
(***************************************************************************)
Url(segs, slash, query, frag) ==
    [segs |-> segs, slash |-> slash, query |-> query, frag |-> frag]

Param(k, v) == [k |-> k, v |-> v]

QueryStr(q) == Join([i \in DOMAIN q |-> q[i].k \o "=" \o q[i].v], "&")

PathStr(u) ==
    IF u.segs = <<>> THEN (IF u.slash THEN "/" ELSE "")
    ELSE "/" \o Join(u.segs, "/") \o (IF u.slash THEN "/" ELSE "")

UrlStr(u) ==
    "http://a" \o PathStr(u)
        \o (IF u.query = <<>> THEN "" ELSE "?" \o QueryStr(u.query))
        \o (IF u.frag = "" THEN "" ELSE "#" \o u.frag)

LowerUrl(u) ==
    [segs |-> [i \in DOMAIN u.segs |-> Lower(u.segs[i])],
     slash |-> u.slash,
     query |-> [i \in DOMAIN u.query |->
                   Param(Lower(u.query[i].k), Lower(u.query[i].v))],
     frag |-> Lower(u.frag)]

\* utils.normalize_url: lower, cut at "#", then url.rstrip("/") when the path
\* is longer than "/" and ends in "/".  rstrip works on the whole URL string,
\* so it removes nothing when a query string follows the path.
utils_normalize_url(u) ==
    LET l == [LowerUrl(u) EXCEPT !.frag = ""]
    IN  IF l.segs # <<>> /\ l.slash /\ l.query = <<>>
        THEN [l EXCEPT !.slash = FALSE]
        ELSE l

MutNormalizeAsUtils(u) == utils_normalize_url(u)

\* models.normalize_url: lower, path.rstrip("/") or "/", fragment dropped.
models_normalize_url(u) ==
    LET l == LowerUrl(u)
    IN  [l EXCEPT !.slash = (l.segs = <<>>), !.frag = ""]

\* PageTask.set_task_id: sha256 of the normalized URL.
task_id(u) == UrlStr(models_normalize_url(u))

PageTask(u, depth) == [url |-> u, depth |-> depth, task_id |-> task_id(u)]

(***************************************************************************)
(* Markup.  A parsed page (selectolax tree) is a record                   *)
(*   anchors    : the <a> elements in document order, each                *)
(*                [text, href, rel_next, in_pag]                           *)
(*   link_next  : the href of <link rel="next">, kind "none" if absent    *)
(*   pagination : whether a pagination container matches                  *)
(*   load_more  : whether a load-more control matches                     *)
(*   items      : what extract_from_item gives for each person card       *)
(*   detail     : what the field resolvers give, were it a detail page    *)
(* An href is [kind, url]: "path" an absolute or root-relative reference  *)
(* (urljoin replaces path, query and fragment), "query" a reference of    *)
(* the form "?k=v" (urljoin keeps the base path), "empty" the empty       *)
(* string, "none" a missing node.  The glyphs of the next-like texts are   *)
(* written "->" and ">>".                                                  *)
(***************************************************************************)
Href(kind, u) == [kind |-> kind, url |-> u]

NoUrl == Url(<<>>, FALSE, <<>>, "")

NoNode == Href("none", NoUrl)

EmptyHref == Href("empty", NoUrl)

Anchor(text, href, rel_next, in_pag) ==
    [text |-> text, href |-> href, rel_next |-> rel_next, in_pag |-> in_pag]

\* utils.make_absolute_url: urljoin(base, url).
make_absolute_url(base, h) ==
    CASE h.kind = "path" -> h.url
      [] h.kind = "query" -> [base EXCEPT !.query = h.url.query, !.frag = h.url.frag]
      [] OTHER -> base

\* parse_qs(query): the keys that carry a non-blank value.
parse_qs(q) == {q[i].k : i \in {j \in DOMAIN q : q[j].v # ""}}

HasCursorParam(q) == parse_qs(q) \cap {"cursor", "after", "offset"} # {}

\* tree.css_first('a[rel="next"]') or tree.css_first('link[rel="next"]')
RelNextHref(tree) ==
    LET idx == {i \in DOMAIN tree.anchors : tree.anchors[i].rel_next}
    IN  IF idx # {}
        THEN tree.anchors[CHOOSE i \in idx : \A j \in idx : i <= j].href
        ELSE tree.link_next

\* The key a seen-URL set holds for a URL.
SeenKey(u) == UrlStr(utils_normalize_url(u))

\* sorted(page_urls): Python's order on the URL strings.  "#" < "/" < digits
\* < "?" < upper case < lower case, so on the URLs of the model the order is
\* by path, then by "no query before query", then by the query string.
UrlsInStringOrder ==
    <<Url(<<"People", "x">>, FALSE, <<>>, ""),
      Url(<<"list">>, FALSE, <<>>, ""),
      Url(<<"list">>, FALSE, <<>>, "top"),
      Url(<<"list">>, TRUE, <<>>, ""),
      Url(<<"list">>, TRUE, <<Param("page", "2")>>, ""),
      Url(<<"list">>, FALSE, <<Param("cursor", "abc")>>, ""),
      Url(<<"list">>, FALSE, <<Param("page", "1")>>, ""),
      Url(<<"list">>, FALSE, <<Param("page", "2")>>, ""),
      Url(<<"list">>, FALSE, <<Param("page", "2")>>, "top"),
      Url(<<"list">>, FALSE, <<Param("page", "3")>>, ""),
      Url(<<"list">>, FALSE, <<Param("page", "4")>>, ""),
      Url(<<"people", "x">>, FALSE, <<>>, ""),
      Url(<<"people", "x">>, TRUE, <<>>, ""),
      Url(<<"people", "y">>, FALSE, <<>>, "")>>

Rank(u) ==
    LET idx == {i \in DOMAIN UrlsInStringOrder : UrlsInStringOrder[i] = u}
    IN  IF idx = {} THEN 0 ELSE CHOOSE i \in idx : TRUE

RECURSIVE sorted(_)
sorted(S) ==
    IF S = {} THEN <<>>
    ELSE LET m == CHOOSE x \in S : \A y \in S : Rank(x) <= Rank(y)
         IN  <<m>> \o sorted(S \ {m})

Take(s, n) == SubSeq(s, 1, IF n < Len(s) THEN n ELSE Len(s))

Emitted(tasks, seen) == [tasks |-> tasks, seen |-> seen]

\* Every anchor among idx is emitted, seen or not.
MutEmitAll(tree, base, seen, idx) ==
    Emitted([i \in 1..Cardinality(idx) |->
                PageTask(make_absolute_url(base,
                    tree.anchors[CHOOSE k \in idx :
                        Cardinality({j \in idx : j < k}) = i - 1].href), 0)],
            seen \cup {SeenKey(make_absolute_url(base, tree.anchors[k].href)) : k \in idx})

\* The first anchor among idx (indices of tree.anchors) whose URL is unseen
\* is emitted; the loops of the code return at the first emission.
EmitFirstUnseen(tree, base, seen, idx) ==
    LET ok == {i \in idx : SeenKey(make_absolute_url(base, tree.anchors[i].href)) \notin seen}
    IN  IF ok = {} THEN Emitted(<<>>, seen)
        ELSE LET i == CHOOSE k \in ok : \A j \in ok : k <= j
                 u == make_absolute_url(base, tree.anchors[i].href)
             IN  Emitted(<<PageTask(u, 0)>>, seen \cup {SeenKey(u)})

MutNextLinkNoSeenCheck(tree, base, seen) ==
    LET h == RelNextHref(tree)
        u == make_absolute_url(base, h)
    IN  IF h.kind \in {"path", "query"}
        THEN Emitted(<<PageTask(u, 0)>>, seen \cup {SeenKey(u)})
        ELSE Emitted(<<>>, seen)

\* PaginationDetector._extract_next_link
_extract_next_link(tree, base, seen) ==
    LET h == RelNextHref(tree)
        u == make_absolute_url(base, h)
    IN  IF h.kind \in {"path", "query"} /\ SeenKey(u) \notin seen
        THEN Emitted(<<PageTask(u, 0)>>, seen \cup {SeenKey(u)})
        ELSE EmitFirstUnseen(tree, base, seen,
                {i \in DOMAIN tree.anchors :
                    /\ Lower(Strip(tree.anchors[i].text)) \in {"next", "next page", "->", ">>"}
                    /\ tree.anchors[i].href.kind \in {"path", "query"}})

\* The second loop of _extract_numbered_pages: emit each URL not yet seen.
RECURSIVE EmitEach(_, _, _)
EmitEach(urls, tasks, seen) ==
    IF urls = <<>> THEN Emitted(tasks, seen)
    ELSE IF SeenKey(Head(urls)) \notin seen
         THEN EmitEach(Tail(urls), Append(tasks, PageTask(Head(urls), 0)),
                       seen \cup {SeenKey(Head(urls))})
         ELSE EmitEach(Tail(urls), tasks, seen)

\* PaginationDetector._extract_numbered_pages; max == 0 stands for None.
_extract_numbered_pages(tree, base, seen, max) ==
    IF ~tree.pagination THEN Emitted(<<>>, seen)
    ELSE LET idx == {i \in DOMAIN tree.anchors :
                        /\ tree.anchors[i].in_pag
                        /\ tree.anchors[i].href.kind \in {"path", "query"}
                        /\ \/ IsDigit(Strip(tree.anchors[i].text))
                           \/ Lower(Strip(tree.anchors[i].text)) \in {"next", "->", ">>"}}
             page_urls == {u \in {make_absolute_url(base, tree.anchors[i].href) : i \in idx} :
                              SeenKey(u) \notin seen}
             sorted_urls == IF max # 0 THEN Take(sorted(page_urls), max - 1)
                            ELSE sorted(page_urls)
         IN  EmitEach(sorted_urls, <<>>, seen)

\* PaginationDetector._extract_cursor_pages
_extract_cursor_pages(tree, base, seen) ==
    EmitFirstUnseen(tree, base, seen,
        {i \in DOMAIN tree.anchors :
            /\ tree.anchors[i].href.kind \in {"path", "query"}
            /\ Lower(Strip(tree.anchors[i].text)) \in {"next", "more", "load more"}
            /\ HasCursorParam(tree.anchors[i].href.url.query)})

MutNextPagesNone(tree, base, seen, strategy, max) == Emitted(<<>>, seen)

\* PaginationDetector.extract_next_pages
extract_next_pages(tree, base, seen, strategy, max) ==
    CASE strategy = "next_link" -> _extract_next_link(tree, base, seen)
      [] strategy = "numbered" -> _extract_numbered_pages(tree, base, seen, max)
      [] strategy = "cursor" -> _extract_cursor_pages(tree, base, seen)
      [] OTHER -> Emitted(<<>>, seen)

\* PaginationDetector._has_numbered_pagination
_has_numbered_pagination(tree) ==
    /\ tree.pagination
    /\ Cardinality({i \in DOMAIN tree.anchors :
                       tree.anchors[i].in_pag /\ IsDigit(Strip(tree.anchors[i].text))}) >= 2

\* detect_strategy with the numbered container tested before rel="next".
MutDetectNumberedFirst(tree, base) ==
    IF _has_numbered_pagination(tree) THEN "numbered"
    ELSE IF RelNextHref(tree).kind # "none" THEN "next_link"
    ELSE IF tree.load_more THEN "infinite_scroll"
    ELSE IF HasCursorParam(base.query) THEN "cursor"
    ELSE "none"

\* PaginationDetector.detect_strategy; base is the detector's base_url.
detect_strategy(tree, base) ==
    IF RelNextHref(tree).kind # "none" THEN "next_link"
    ELSE IF _has_numbered_pagination(tree) THEN "numbered"
    ELSE IF tree.load_more THEN "infinite_scroll"
    ELSE IF HasCursorParam(base.query) THEN "cursor"
    ELSE "none"

\* models.SiteHints, the four hints that name a concern of a listing page;
\* "" stands for None.  A pagination_strategy is a str-Enum member and always
\* truthy.  The only next_page_selector of the model is a[href*="cursor"].
SiteHints(list_item_selector, next_page_selector, profile_link_selector, pagination_strategy) ==
    [list_item_selector |-> list_item_selector,
     next_page_selector |-> next_page_selector,
     profile_link_selector |-> profile_link_selector,
     pagination_strategy |-> pagination_strategy]

\* _extract_from_list_page, lines 321-326: the hinted strategy, else the
\* detector's, whose base_url is the start URL of the crawl.
list_page_strategy(hints, tree, start_url) ==
    IF hints.pagination_strategy # "" THEN hints.pagination_strategy
    ELSE detect_strategy(tree, start_url)

\* _extract_from_list_page, lines 321-332: the tasks the page adds to the
\* queue for its next pages.  extract_next_pages is called without max_pages,
\* and nothing reads hints.next_page_selector or uses page_url other than as
\* the tasks' parent_url.
list_page_next_pages(hints, tree, start_url, page_url, seen) ==
    LET strategy == list_page_strategy(hints, tree, start_url)
        out == extract_next_pages(tree, start_url, seen, strategy, 0)
    IN  [strategy |-> strategy, tasks |-> out.tasks, seen |-> out.seen]

\* One step of generate_numbered_urls: the query with param_name set to n.
\* parse_qs drops blank values, urlencode writes the keys in dict order with an
\* updated key in place and a new key last.
SetParam(q, name, n) ==
    LET kept == SelectSeq(q, LAMBDA p : p.v # "")
        has == \E i \in DOMAIN kept : kept[i].k = name
    IN  IF has
        THEN [i \in DOMAIN kept |->
                 IF kept[i].k = name THEN Param(name, ToString(n)) ELSE kept[i]]
        ELSE Append(kept, Param(name, ToString(n)))

RECURSIVE GenPages(_, _, _, _, _)
GenPages(base, name, nums, tasks, seen) ==
    IF nums = <<>> THEN Emitted(tasks, seen)
    ELSE LET u == Url(base.segs, base.slash, SetParam(base.query, name, Head(nums)), "")
         IN  IF SeenKey(u) \notin seen
             THEN GenPages(base, name, Tail(nums), Append(tasks, PageTask(u, 0)),
                           seen \cup {SeenKey(u)})
             ELSE GenPages(base, name, Tail(nums), tasks, seen)

\* PaginationDetector.generate_numbered_urls
generate_numbered_urls(base, max, name, start_page, seen) ==
    GenPages(base, name, [i \in 1..max |-> start_page + i - 1], <<>>, seen)

(***************************************************************************)
(* Records.  A record's data is [page_url, name, email] (the fields that  *)
(* decide identity); "" is an empty or missing value.                      *)
(***************************************************************************)
Data(page_url, name, email) == [page_url |-> page_url, name |-> name, email |-> email]

ExtractedRecord(data, source_url, method) ==
    [data |-> data, source_url |-> source_url, extraction_method |-> method]

\* The parts of a key: str(value).lower().strip() of each non-empty field.
KeyParts(data, fields) ==
    LET present == SelectSeq(fields, LAMBDA f : f \in DOMAIN data /\ data[f] # "")
    IN  [i \in DOMAIN present |-> Strip(Lower(data[present[i]]))]

\* record_id that hashes name and email as written.
MutRecordIdRaw(rec) ==
    IF rec.data.page_url # "" THEN rec.data.page_url
    ELSE IF rec.data.name # "" \/ rec.data.email # ""
         THEN Join(SelectSeq(<<rec.data.name, rec.data.email>>, LAMBDA v : v # ""), "|")
         ELSE rec.source_url

\* ExtractedRecord.record_id (the sha256 prefix of the string below).
record_id(rec) ==
    IF rec.data.page_url # "" THEN rec.data.page_url
    ELSE IF KeyParts(rec.data, <<"name", "email">>) # <<>>
         THEN Join(KeyParts(rec.data, <<"name", "email">>), "|")
         ELSE rec.source_url

RECURSIVE DedupLoop(_, _, _, _)
DedupLoop(rs, key_fields, seen, unique) ==
    IF rs = <<>> THEN unique
    ELSE LET parts == KeyParts(Head(rs), key_fields)
             key == Join(parts, "|")
         IN  IF parts = <<>>
             THEN DedupLoop(Tail(rs), key_fields, seen, Append(unique, Head(rs)))
             ELSE IF key \notin seen
                  THEN DedupLoop(Tail(rs), key_fields, seen \cup {key},
                                 Append(unique, Head(rs)))
                  ELSE DedupLoop(Tail(rs), key_fields, seen, unique)

MutDedupKeepsAll(rs, key_fields) == rs

\* Drops the second record of a key and keeps every later one.
MutDedupDropsSecondOnly(rs, key_fields) ==
    LET key(i) == Join(KeyParts(rs[i], key_fields), "|")
        keep(i) == \/ KeyParts(rs[i], key_fields) = <<>>
                   \/ Cardinality({j \in 1..(i - 1) : key(j) = key(i)}) # 1
        kept == SelectSeq([i \in DOMAIN rs |-> i], keep)
    IN  [k \in DOMAIN kept |-> rs[kept[k]]]

\* storage.deduplicate_records: the loop above from seen = set(), unique = [],
\* in closed form (a record is kept iff it has no key, or no record before it
\* has its key).  DedupAgrees states that the two are the same.
deduplicate_records(rs, key_fields) ==
    LET key(i) == Join(KeyParts(rs[i], key_fields), "|")
        keep(i) == \/ KeyParts(rs[i], key_fields) = <<>>
                   \/ \A j \in 1..(i - 1) : key(j) # key(i)
        kept == SelectSeq([i \in DOMAIN rs |-> i], keep)
    IN  [k \in DOMAIN kept |-> rs[kept[k]]]

\* "if record.record_id not in self.seen_record_ids: add, append"
\* buf is [records, seen].
MutRetainAlways(buf, rec) ==
    [records |-> Append(buf.records, rec), seen |-> buf.seen \cup {record_id(rec)}]

Retain(buf, rec) ==
    IF record_id(rec) \notin buf.seen
    THEN [records |-> Append(buf.records, rec), seen |-> buf.seen \cup {record_id(rec)}]
    ELSE buf

\* The item loop of _extract_from_list_page: an item whose extraction raises
\* is logged and skipped.  An item is [raises, data].
RECURSIVE ItemLoop(_, _, _)
ItemLoop(items, source_url, buf) ==
    IF items = <<>> THEN buf
    ELSE IF Head(items).raises THEN ItemLoop(Tail(items), source_url, buf)
         ELSE CHOOSE out \in
                  {ItemLoop(Tail(items), source_url, kept) :
                      kept \in {Retain(buf, ExtractedRecord(Head(items).data,
                                                           source_url, "heuristic"))}} :
                  TRUE

RaisedIn(items) == Cardinality({i \in DOMAIN items : items[i].raises})

\* field_resolvers.resolve_all_fields on a detail page: detail is
\* [raises, name, email, canonical]; page_url is the canonical link if the
\* page has one, else the URL as fetched.
resolve_all_fields(detail, page_url) ==
    Data(IF detail.canonical # "" THEN detail.canonical ELSE page_url,
         detail.name, detail.email)

(***************************************************************************)
(* Detail links.                                                           *)
(***************************************************************************)
HasSegment(u, names) ==
    \E i \in DOMAIN u.segs :
        /\ Lower(u.segs[i]) \in names
        /\ (i < Len(u.segs) \/ u.slash)

\* utils.is_person_url
is_person_url(u) ==
    HasSegment(u, {"people", "person", "profile", "faculty", "staff", "team",
                   "member", "employee", "researcher", "expert"})

\* pagination.extract_detail_links without a selector: the set of absolute
\* URLs of the anchors whose href matches the profile pattern.
extract_detail_links(tree, base) ==
    {make_absolute_url(base, tree.anchors[i].href) :
        i \in {j \in DOMAIN tree.anchors :
                  /\ tree.anchors[j].href.kind = "path"
                  /\ HasSegment(tree.anchors[j].href.url,
                        {"people", "person", "profile", "faculty", "staff", "member"})}}

\* list(set(links)): the set in any order.
Orders(S) == {s \in [1..Cardinality(S) -> S] : \A x \in S : \E i \in DOMAIN s : s[i] = x}

DetailCap == 50

\* The detail tasks built with the depth of a listing page.
MutDetailTasksDepthZero(order) ==
    LET kept == SelectSeq(Take(order, DetailCap), is_person_url)
    IN  [i \in DOMAIN kept |-> PageTask(kept[i], 0)]

\* The tasks queued for detail links given in the order `order`.
DetailTasks(order) ==
    LET kept == SelectSeq(Take(order, DetailCap), is_person_url)
    IN  [i \in DOMAIN kept |-> PageTask(kept[i], 1)]

(***************************************************************************)
(* The run store (storage.RunHistory).                                     *)
(***************************************************************************)
RunIds == {"r1", "r2"}

NoRow == [present |-> FALSE, completed_at |-> -1, pages_fetched |-> 0,
          pages_failed |-> 0, records_extracted |-> 0, records_valid |-> 0,
          duration_ms |-> -1, errors |-> <<>>]

Event(r, kind, key) == [run_id |-> r, kind |-> kind, key |-> key]

\* RunHistory.create_run: INSERT INTO runs; the other columns take their defaults.
create_run(rs, md) == [rs EXCEPT ![md.run_id] = [NoRow EXCEPT !.present = TRUE]]

MutUpdateRunNoop(rs, md) == rs

\* RunHistory.update_run: UPDATE runs SET ... WHERE run_id = ?
update_run(rs, md) ==
    IF rs[md.run_id].present
    THEN [rs EXCEPT ![md.run_id] =
            [present |-> TRUE, completed_at |-> md.completed_at,
             pages_fetched |-> md.pages_fetched, pages_failed |-> md.pages_failed,
             records_extracted |-> md.records_extracted,
             records_valid |-> md.records_valid,
             duration_ms |-> md.duration_ms, errors |-> md.errors]]
    ELSE rs

\* RunHistory.log_event
log_event(evs, r, kind, key) == Append(evs, Event(r, kind, key))

MutNeverCompleted(evs, r, key) == FALSE

\* The lookup without "run_id = ?".
MutCompletedInAnyRun(evs, r, key) == \E i \in DOMAIN evs : evs[i].key = key

\* RunHistory.is_task_completed: SELECT COUNT(*) ... WHERE run_id = ? AND key = ?
is_task_completed(evs, r, key) ==
    \E i \in DOMAIN evs : evs[i].run_id = r /\ evs[i].key = key

(***************************************************************************)
(* The pages the model's site can serve.                                   *)
(***************************************************************************)
L == Url(<<"list">>, FALSE, <<>>, "")

Ls == Url(<<"list">>, TRUE, <<>>, "")

P2 == Url(<<"list">>, FALSE, <<Param("page", "2")>>, "")

P2s == Url(<<"list">>, TRUE, <<Param("page", "2")>>, "")

P2f == Url(<<"list">>, FALSE, <<Param("page", "2")>>, "top")

Cur == Url(<<"list">>, FALSE, <<Param("cursor", "abc")>>, "")

D == Url(<<"people", "x">>, FALSE, <<>>, "")

Ds == Url(<<"people", "x">>, TRUE, <<>>, "")

Path(u) == Href("path", u)

Tree(anchors, link_next, load_more, items) ==
    [anchors |-> anchors, link_next |-> link_next,
     pagination |-> \E i \in DOMAIN anchors : anchors[i].in_pag,
     load_more |-> load_more, items |-> items]

Item(data) == [raises |-> FALSE, data |-> data]

BadItem == [raises |-> TRUE, data |-> Data("", "", "")]

\* The listing pages a fetch may return.
ListTrees ==
    { Tree(<<>>, NoNode, FALSE, <<>>),
      Tree(<<Anchor("Bio", Path(D), FALSE, FALSE),
             Anchor("Next", Path(P2), TRUE, FALSE)>>,
           NoNode, FALSE, <<Item(Data("", "Ann ", "")), BadItem>>),
      Tree(<<Anchor("Bio", Path(Ds), FALSE, FALSE),
             Anchor("Next", Path(L), FALSE, FALSE)>>,
           NoNode, FALSE, <<Item(Data("", "ann", "")),
                            Item(Data("", "ann", "ANN@X.ORG"))>>),
      Tree(<<Anchor("1", Path(L), FALSE, TRUE),
             Anchor("2", Path(P2), FALSE, TRUE),
             Anchor(" 2 ", Path(P2s), FALSE, TRUE)>>,
           NoNode, FALSE, <<Item(Data("http://a/people/x", "Bob", ""))>>) }

Detail(raises, name, email, canonical) ==
    [raises |-> raises, name |-> name, email |-> email, canonical |-> canonical]

\* The detail pages a fetch may return.
DetailPages ==
    { Detail(TRUE, "", "", ""),
      Detail(FALSE, "", "", ""),
      Detail(FALSE, "ann ", "ANN@X.ORG", "http://a/people/x") }

\* An empty page: no container matches (listing), no field resolves (detail).
EmptyListPage(tree) == tree.items = <<>>

EmptyDetailPage(detail) ==
    ~detail.raises /\ detail.name = "" /\ detail.email = "" /\ detail.canonical = ""

(***************************************************************************)
(* Site "A": two listing pages and nothing else.  Page 1 (the start URL)  *)
(* has three person cards and a rel="next" link to page 2; page 2 has two *)
(* cards and no further link.  In the variant "A_links" every card links  *)
(* a profile route, which the site does not serve (the request fails).    *)
(* A card's record is [page_url, name, email]: the linked profile URL if  *)
(* the card has a link, the name and the address on the card.             *)
(***************************************************************************)
Sites == {"any", "A", "A_links"}

Profile(n) == Url(<<"people", n>>, FALSE, <<>>, "")

Card(st, n) ==
    Item(Data(IF st = "A_links" THEN UrlStr(Profile(n)) ELSE "", n, n \o "@x.org"))

CardLinks(st, names) ==
    IF st = "A_links"
    THEN [i \in DOMAIN names |-> Anchor(names[i], Path(Profile(names[i])), FALSE, FALSE)]
    ELSE <<>>

PageA1(st) ==
    Tree(CardLinks(st, <<"cy", "di", "ed">>) \o <<Anchor("Next", Path(P2), TRUE, FALSE)>>,
         NoNode, FALSE, <<Card(st, "cy"), Card(st, "di"), Card(st, "ed")>>)

PageA2(st) ==
    Tree(CardLinks(st, <<"flo", "gus">>), NoNode, FALSE, <<Card(st, "flo"), Card(st, "gus")>>)

\* The pages of the site at a URL: what a successful fetch of it may return.
ListPagesAt(st, u) ==
    IF st = "any" THEN ListTrees
    ELSE IF u = L THEN {PageA1(st)}
    ELSE IF u = P2 THEN {PageA2(st)}
    ELSE {}

DetailPagesAt(st, u) == IF st = "any" THEN DetailPages ELSE {}

\* Whether a request for the URL can fail (any request to an unknown site; on
\* site A the two pages are served and every other URL is a 404, which
\* HTTPFetcher.fetch raises through raise_for_status).
MayFail(st, u) == st = "any" \/ (ListPagesAt(st, u) = {} /\ DetailPagesAt(st, u) = {})

\* The markup the pagination engine is exercised on.
PagAnchors ==
    { Anchor("Next", Path(P2), TRUE, FALSE),
      Anchor("Next", Path(P2s), FALSE, FALSE),
      Anchor("Next", Href("query", P2), FALSE, TRUE),
      Anchor("1", EmptyHref, TRUE, TRUE),
      Anchor("2", Path(P2), FALSE, TRUE),
      Anchor(" 2 ", Path(P2f), FALSE, TRUE),
      Anchor("more", Path(Cur), FALSE, FALSE) }

PagTrees ==
    { Tree(as, ln, FALSE, <<>>) :
        as \in {<<>>} \cup {<<a>> : a \in PagAnchors}
                      \cup {<<a, b>> : a \in PagAnchors, b \in PagAnchors},
        ln \in {NoNode, Path(P2s)} }

Strategies == {"next_link", "numbered", "cursor", "infinite_scroll", "none"}

(***************************************************************************)
(* The store a run finds: the events an earlier use of the store logged   *)
(* under one run ID, and whether the runs table holds this run's ID.       *)
(***************************************************************************)
PriorKeySets == {{}, {task_id(L)}, {task_id(L), task_id(P2), task_id(D)}}

PriorEvents(r, keys) ==
    LET all == <<task_id(L), task_id(P2), task_id(D)>>
        ks == SelectSeq(all, LAMBDA k : k \in keys)
    IN  [i \in DOMAIN ks |-> Event(r, "page_fetched", ks[i])]

NewMetadata(r) ==
    [run_id |-> r, start_url |-> "", completed_at |-> -1, duration_ms |-> -1,
     pages_fetched |-> 0, pages_failed |-> 0, records_extracted |-> 0,
     records_valid |-> 0, errors |-> <<>>]

\* The state after ScraperPipeline.__init__, over any store.
Init ==
    /\ pc = "constructed"
    /\ force = FALSE
    /\ max_pages = 0
    /\ max_runtime = 0
    /\ respect_robots \in BOOLEAN
    /\ run_id = "r1"
    /\ \E has_row \in BOOLEAN :
          runs = [r \in RunIds |-> IF r = "r1" /\ has_row
                                   THEN [NoRow EXCEPT !.present = TRUE] ELSE NoRow]
    /\ \E r \in RunIds, keys \in PriorKeySets :
          /\ r # "r1" => keys = {task_id(L), task_id(P2), task_id(D)}
          /\ events = PriorEvents(r, keys)
    /\ n_prior = Len(events)
    /\ clock = 0
    /\ start_time = 0
    /\ processed = 0
    /\ task_queue = <<>>
    /\ seen_urls = {}
    /\ records = <<>>
    /\ seen_record_ids = {}
    /\ metadata = NewMetadata("r1")
    /\ written = <<>>
    /\ fetcher_made = FALSE
    /\ fetch_calls = 0
    /\ last_step = "none"
    /\ link_tasks = <<>>
    /\ extract_errors = 0
    /\ base_url = L
    /\ calls = 0
    /\ produced_ids = {}
    /\ produced_n = 0
    /\ site \in Sites
    /\ site # "any" =>
          \/ events = <<>> /\ ~runs["r1"].present
          \/ site = "A" /\ events = PriorEvents("r1", {task_id(L)})
    /\ last_empty = FALSE
    /\ fn_args = <<>>
    /\ fn_result = <<>>
    /\ limiter = <<>>

Tick(dt) == IF clock + dt <= MaxClock THEN clock + dt ELSE MaxClock

crawl_vars == <<start_time, processed, task_queue, seen_urls, link_tasks>>

buffer_vars == <<records, seen_record_ids, written, extract_errors, produced_ids,
                 produced_n>>

param_vars == <<force, max_pages, max_runtime, respect_robots, run_id, n_prior, base_url,
                calls, site, fn_args, fn_result, limiter>>

\* run(), lines 87-100: the arguments are taken.
Run ==
    /\ pc = "constructed"
    /\ \E f \in BOOLEAN, mp \in 0..MaxPagesArg, mr \in {0, MaxRuntimeArg} :
          /\ force' = f
          /\ max_pages' = mp
          /\ max_runtime' = mr
    /\ metadata' = [metadata EXCEPT !.start_url = UrlStr(base_url)]
    /\ pc' = "robots"
    /\ UNCHANGED <<respect_robots, run_id, n_prior, base_url, calls, site, fn_args,
                   fn_result, limiter, runs, events, clock, fetcher_made, fetch_calls, last_step,
                   last_empty>>
    /\ UNCHANGED crawl_vars
    /\ UNCHANGED buffer_vars

MutRobotsDenialIgnored(md) == [metadata |-> md, pc |-> "setup"]

\* run(), lines 104-107, the denial: the error is recorded and run() returns.
RobotsDenial(md) ==
    [metadata |-> [md EXCEPT !.errors = Append(@, "Disallowed by robots.txt")],
     pc |-> "returned"]

\* run(), lines 102-107: check_robots_txt denies the start URL.
RobotsDenied ==
    /\ pc = "robots"
    /\ respect_robots
    /\ metadata' = RobotsDenial(metadata).metadata
    /\ pc' = RobotsDenial(metadata).pc
    /\ last_step' = "denied"
    /\ last_empty' = FALSE
    /\ \E dt \in 0..1 : clock' = Tick(dt)
    /\ UNCHANGED <<runs, events, fetcher_made, fetch_calls>>
    /\ UNCHANGED param_vars
    /\ UNCHANGED crawl_vars
    /\ UNCHANGED buffer_vars

\* run(), lines 102-107: robots.txt is not consulted, allows the URL, or
\* cannot be read (check_robots_txt then returns True).
RobotsAllowed ==
    /\ pc = "robots"
    /\ pc' = "setup"
    /\ \E dt \in 0..1 : clock' = IF respect_robots THEN Tick(dt) ELSE clock
    /\ UNCHANGED <<metadata, runs, events, fetcher_made, fetch_calls, last_step, last_empty>>
    /\ UNCHANGED param_vars
    /\ UNCHANGED crawl_vars
    /\ UNCHANGED buffer_vars

\* run(), lines 110-115: the fetcher and the store are opened; create_run's
\* INSERT violates the primary key when the run ID is already in the table,
\* and the exception leaves run().
SetupRaises ==
    /\ pc = "setup"
    /\ runs[metadata.run_id].present
    /\ fetcher_made' = TRUE
    /\ pc' = "raised"
    /\ UNCHANGED <<metadata, runs, events, clock, fetch_calls, last_step, last_empty>>
    /\ UNCHANGED param_vars
    /\ UNCHANGED crawl_vars
    /\ UNCHANGED buffer_vars

\* run(), lines 110-132 and _crawl, lines 191-201.
Setup ==
    /\ pc = "setup"
    /\ ~runs[metadata.run_id].present
    /\ fetcher_made' = TRUE
    /\ runs' = create_run(runs, metadata)
    /\ seen_urls' = {}
    /\ task_queue' = <<PageTask(base_url, 0)>>
    /\ processed' = 0
    /\ start_time' = clock
    /\ pc' = "loop"
    /\ UNCHANGED <<metadata, events, clock, fetch_calls, last_step, last_empty, link_tasks>>
    /\ UNCHANGED param_vars
    /\ UNCHANGED buffer_vars

(***************************************************************************)
(* The crawl loop (_crawl, lines 203-267).  Each action is one pass        *)
(* through the loop body, or the loop's exit.                              *)
(***************************************************************************)
MutBudgetOffByOne == max_pages = 0 \/ processed <= max_pages

BudgetLeft == max_pages = 0 \/ processed < max_pages

MutTimeNeverExceeded == FALSE

TimeExceeded == max_runtime # 0 /\ clock - start_time > max_runtime

\* The loop is about to pop a task.
Dequeues ==
    /\ pc = "loop"
    /\ task_queue # <<>>
    /\ BudgetLeft
    /\ ~TimeExceeded

\* The popped task is not skipped: it is fetched.
Fetches ==
    /\ Dequeues
    /\ force \/ ~is_task_completed(events, run_id, Head(task_queue).task_id)

\* "while task_queue and (not max_pages or processed < max_pages)" is false.
LoopExit ==
    /\ pc = "loop"
    /\ task_queue = <<>> \/ ~BudgetLeft
    /\ pc' = "finalize"
    /\ UNCHANGED <<metadata, runs, events, clock, fetcher_made, fetch_calls, last_step, last_empty>>
    /\ UNCHANGED param_vars
    /\ UNCHANGED crawl_vars
    /\ UNCHANGED buffer_vars

\* Lines 205-209: the runtime limit is exceeded, break.
LoopTimeout ==
    /\ pc = "loop"
    /\ task_queue # <<>>
    /\ BudgetLeft
    /\ TimeExceeded
    /\ pc' = "finalize"
    /\ UNCHANGED <<metadata, runs, events, clock, fetcher_made, fetch_calls, last_step, last_empty>>
    /\ UNCHANGED param_vars
    /\ UNCHANGED crawl_vars
    /\ UNCHANGED buffer_vars

\* Lines 212-218: the task's ID is in the event log of this run, continue.
SkipCompleted ==
    /\ Dequeues
    /\ ~force
    /\ is_task_completed(events, run_id, Head(task_queue).task_id)
    /\ task_queue' = Tail(task_queue)
    /\ last_step' = "skipped"
    /\ last_empty' = FALSE
    /\ UNCHANGED <<pc, metadata, runs, events, clock, fetcher_made, fetch_calls>>
    /\ UNCHANGED <<start_time, processed, seen_urls, link_tasks>>
    /\ UNCHANGED param_vars
    /\ UNCHANGED buffer_vars

\* The handler that logs the failure and does not count it.
MutFetchFailureUncounted(md) == [metadata |-> md, pc |-> "loop"]

MutFetchFailureAborts(md) ==
    [metadata |-> [md EXCEPT !.errors = Append(@, "fetch failed")], pc |-> "finalize"]

\* Lines 246-249, the handler of a failed fetch: "pages_failed += 1; continue".
FetchFailure(md) ==
    [metadata |-> [md EXCEPT !.pages_failed = @ + 1], pc |-> "loop"]

\* Lines 221-226, 246-249: fetcher.fetch raises, continue.
FetchFails ==
    /\ Fetches
    /\ MayFail(site, Head(task_queue).url)
    /\ task_queue' = Tail(task_queue)
    /\ metadata' = FetchFailure(metadata).metadata
    /\ pc' = FetchFailure(metadata).pc
    /\ fetch_calls' = fetch_calls + 1
    /\ last_step' = "fetch_failed"
    /\ last_empty' = FALSE
    /\ \E dt \in 0..1 : clock' = Tick(dt)
    /\ UNCHANGED <<runs, events, fetcher_made>>
    /\ UNCHANGED <<start_time, processed, seen_urls, link_tasks>>
    /\ UNCHANGED param_vars
    /\ UNCHANGED buffer_vars

\* Lines 228-236: the counters and the event after a successful fetch.
Fetched(task) ==
    /\ metadata' = [metadata EXCEPT !.pages_fetched = @ + 1]
    /\ processed' = processed + 1
    /\ events' = log_event(events, run_id, "page_fetched", task.task_id)
    /\ fetch_calls' = fetch_calls + 1
    /\ \E dt \in 0..1 : clock' = Tick(dt)

\* The next-page tasks queued ahead of the detail tasks.
MutEnqueueNextFirst(queue, detail_tasks, next_tasks) == queue \o next_tasks \o detail_tasks

\* _extract_from_list_page, lines 316-319 and 332: the detail tasks are
\* appended to the queue, then the next-page tasks.
Enqueue(queue, detail_tasks, next_tasks) == queue \o detail_tasks \o next_tasks

LinkTask(task, via) == [task |-> task, via |-> via]

Via(tasks, via) == [i \in DOMAIN tasks |-> LinkTask(tasks[i], via)]

\* Lines 252-260 and _extract_from_list_page: a listing page is fetched, its
\* items are resolved, its detail links and next pages are queued.
FetchListPage ==
    /\ Fetches
    /\ Head(task_queue).depth = 0
    /\ Fetched(Head(task_queue))
    /\ \E tree \in ListPagesAt(site, Head(task_queue).url) :
       \E task \in {Head(task_queue)} :
       \E buf \in {ItemLoop(tree.items, UrlStr(task.url),
                            [records |-> records, seen |-> seen_record_ids])} :
       \E next \in {extract_next_pages(tree, base_url, seen_urls,
                                       detect_strategy(tree, base_url), 0)} :
         /\ records' = buf.records
         /\ seen_record_ids' = buf.seen
         /\ extract_errors' = extract_errors + RaisedIn(tree.items)
         /\ produced_ids' = produced_ids \cup
                {record_id(ExtractedRecord(tree.items[i].data, UrlStr(task.url),
                                           "heuristic")) :
                    i \in {j \in DOMAIN tree.items : ~tree.items[j].raises}}
         /\ produced_n' = produced_n + Len(tree.items) - RaisedIn(tree.items)
         /\ seen_urls' = next.seen
         /\ last_empty' = EmptyListPage(tree)
         /\ \E links \in {extract_detail_links(tree, task.url)} :
            \E order \in Orders(links) :
            \E queued \in {DetailTasks(order)} :
              /\ task_queue' = Enqueue(Tail(task_queue), queued, next.tasks)
              /\ link_tasks' = link_tasks \o Via(queued, "detail")
                                          \o Via(next.tasks, "pagination")
    /\ last_step' = "list_page"
    /\ UNCHANGED <<pc, runs, fetcher_made, start_time, written>>
    /\ UNCHANGED param_vars

\* Lines 261-267 and _extract_from_detail_page: a detail page is fetched and
\* its record is resolved and retained.
FetchDetailPage ==
    /\ Fetches
    /\ Head(task_queue).depth # 0
    /\ Fetched(Head(task_queue))
    /\ \E detail \in {d \in DetailPagesAt(site, Head(task_queue).url) : ~d.raises} :
         LET task == Head(task_queue)
             rec == ExtractedRecord(resolve_all_fields(detail, UrlStr(task.url)),
                                    UrlStr(task.url), "heuristic")
             buf == Retain([records |-> records, seen |-> seen_record_ids], rec)
         IN  /\ records' = buf.records
             /\ seen_record_ids' = buf.seen
             /\ produced_ids' = produced_ids \cup {record_id(rec)}
             /\ produced_n' = produced_n + 1
             /\ last_empty' = EmptyDetailPage(detail)
    /\ task_queue' = Tail(task_queue)
    /\ last_step' = "detail_page"
    /\ UNCHANGED <<pc, runs, fetcher_made, start_time, written, extract_errors,
                   seen_urls, link_tasks>>
    /\ UNCHANGED param_vars

MutCrawlErrorEscapes(md) == [metadata |-> md, pc |-> "raised"]

\* run(), lines 144-146, the handler around _crawl: the error is recorded and
\* run() goes on to finalize.
CrawlError(md) ==
    [metadata |-> [md EXCEPT !.errors = Append(@, "extraction error")], pc |-> "finalize"]

\* Lines 261-267, 144-146: resolving the fields of a detail page raises; no
\* handler stands between _extract_from_detail_page and run(), whose handler
\* records the error and ends the crawl.
FetchDetailPageRaises ==
    /\ Fetches
    /\ Head(task_queue).depth # 0
    /\ \E detail \in {d \in DetailPagesAt(site, Head(task_queue).url) : d.raises} : TRUE
    /\ metadata' = CrawlError([metadata EXCEPT !.pages_fetched = @ + 1]).metadata
    /\ processed' = processed + 1
    /\ events' = log_event(events, run_id, "page_fetched", Head(task_queue).task_id)
    /\ fetch_calls' = fetch_calls + 1
    /\ \E dt \in 0..1 : clock' = Tick(dt)
    /\ task_queue' = Tail(task_queue)
    /\ extract_errors' = extract_errors + 1
    /\ last_step' = "detail_raised"
    /\ last_empty' = FALSE
    /\ pc' = CrawlError(metadata).pc
    /\ UNCHANGED <<runs, fetcher_made, start_time, written, records, seen_record_ids,
                   seen_urls, link_tasks, produced_ids, produced_n>>
    /\ UNCHANGED param_vars

\* run(), lines 148-177: the run is finalized and the metadata returned.
Finalize ==
    /\ pc = "finalize"
    /\ LET records_data == [i \in DOMAIN records |-> records[i].data]
       IN  /\ written' = deduplicate_records(records_data, <<"page_url", "name">>)
           /\ metadata' = [metadata EXCEPT !.completed_at = clock,
                                           !.duration_ms = clock * 1000,
                                           !.records_extracted = Len(records_data),
                                           !.records_valid = Len(written')]
    /\ runs' = update_run(runs, metadata')
    /\ pc' = "returned"
    /\ UNCHANGED <<events, clock, fetcher_made, fetch_calls, last_step, last_empty>>
    /\ UNCHANGED <<records, seen_record_ids, extract_errors, produced_ids, produced_n>>
    /\ UNCHANGED param_vars
    /\ UNCHANGED crawl_vars

Next ==
    \/ Run
    \/ RobotsDenied
    \/ RobotsAllowed
    \/ SetupRaises
    \/ Setup
    \/ LoopExit
    \/ LoopTimeout
    \/ SkipCompleted
    \/ FetchFails
    \/ FetchListPage
    \/ FetchDetailPage
    \/ FetchDetailPageRaises
    \/ Finalize

Spec == Init /\ [][Next]_vars

(***************************************************************************)
(* The pagination engine on its own: one PaginationDetector, called any   *)
(* number of times with any markup and any strategy.                       *)
(***************************************************************************)
InitPag ==
    /\ pc = "detector"
    /\ force = FALSE
    /\ max_pages = 0
    /\ max_runtime = 0
    /\ respect_robots = FALSE
    /\ run_id = "r1"
    /\ runs = [r \in RunIds |-> NoRow]
    /\ events = <<>>
    /\ n_prior = 0
    /\ clock = 0
    /\ start_time = 0
    /\ processed = 0
    /\ task_queue = <<>>
    /\ seen_urls = {}
    /\ records = <<>>
    /\ seen_record_ids = {}
    /\ metadata = NewMetadata("r1")
    /\ written = <<>>
    /\ fetcher_made = FALSE
    /\ fetch_calls = 0
    /\ last_step = "none"
    /\ link_tasks = <<>>
    /\ extract_errors = 0
    /\ base_url \in {L, Cur}
    /\ calls = 0
    /\ produced_ids = {}
    /\ produced_n = 0
    /\ site = "any"
    /\ last_empty = FALSE
    /\ fn_args = <<>>
    /\ fn_result = <<>>
    /\ limiter = <<>>

pag_frame == <<pc, force, max_pages, max_runtime, respect_robots, run_id, runs,
               events, n_prior, clock, start_time, processed, task_queue, records,
               seen_record_ids, metadata, written, fetcher_made, fetch_calls,
               last_step, extract_errors, base_url, produced_ids, produced_n, site,
               last_empty, fn_args, fn_result, limiter>>

\* detector.extract_next_pages(tree, current_url, strategy, max_pages)
CallExtractNextPages ==
    /\ pc = "detector"
    /\ calls < MaxCalls
    /\ calls' = calls + 1
    /\ \E tree \in PagTrees, strategy \in Strategies, max \in 0..MaxPagesArg :
         LET out == extract_next_pages(tree, base_url, seen_urls, strategy, max)
         IN  /\ seen_urls' = out.seen
             /\ link_tasks' = link_tasks \o Via(out.tasks, "pagination")
    /\ UNCHANGED pag_frame

\* detector.generate_numbered_urls(base_url, max_pages, "page", start_page)
CallGenerateNumberedUrls ==
    /\ pc = "detector"
    /\ calls < MaxCalls
    /\ calls' = calls + 1
    /\ \E base \in {L, P2f}, max \in 1..MaxGenPages, start_page \in 1..2 :
         LET out == generate_numbered_urls(base, max, "page", start_page, seen_urls)
         IN  /\ seen_urls' = out.seen
             /\ link_tasks' = link_tasks \o Via(out.tasks, "generated")
    /\ UNCHANGED pag_frame

NextPag ==
    \/ CallExtractNextPages
    \/ CallGenerateNumberedUrls

SpecPag == InitPag /\ [][NextPag]_vars

(***************************************************************************)
(* The pure functions on their own: one call of one of them on arguments  *)
(* drawn from the sets below; fn_args holds the call, fn_result what it   *)
(* returned.                                                               *)
(***************************************************************************)
MaxFnLen == 3        \* deduplicate_records is called on lists of up to MaxFnLen records

FnCall(fn, args) == [fn |-> fn, args |-> args]

\* Record data: page URLs that differ in a trailing slash, names and
\* addresses that differ in case and in outer blanks, and missing values.
FnData ==
    { Data(p, n, e) : p \in {"", "http://a/people/x", "http://a/people/x/"},
                      n \in {"", "ann", "Ann ", "Bob"},
                      e \in {"", "ann@x.org", "ANN@X.ORG"} }

FnRecords == { ExtractedRecord(d, src, "heuristic") : d \in FnData,
                                                     src \in {UrlStr(L), UrlStr(P2)} }

\* The rows deduplicate_records is called on.
FnRows ==
    { Data("", "", ""), Data("", "ann", ""), Data("", "Ann ", "ann@x.org"),
      Data("http://a/people/x", "ann", ""), Data("http://a/people/x", "Bob", ""),
      Data("http://a/people/x/", "", "ANN@X.ORG"), Data("", "ann@x.org", "") }

FnLists == UNION { [1..n -> FnRows] : n \in 0..MaxFnLen }

FnKeyFields == { <<"page_url", "name">>, <<"name", "email">>, <<"email">>, <<>> }

FnUrls ==
    { Url(segs, slash, query, frag) :
        segs \in {<<>>, <<"people">>, <<"People">>, <<"people", "x">>},
        slash \in BOOLEAN,
        query \in {<<>>, <<Param("page", "2")>>},
        frag \in {"", "top"} }

FnAnchors ==
    { Anchor("Next", Path(P2), TRUE, FALSE),
      Anchor("Next", Path(P2), FALSE, FALSE),
      Anchor("1", Path(L), FALSE, TRUE),
      Anchor(" 2 ", Path(P2), FALSE, TRUE),
      Anchor("Next", Path(P2), FALSE, TRUE),
      Anchor("2", Path(P2), FALSE, FALSE) }

FnTrees ==
    { Tree(as, ln, lm, <<>>) :
        as \in {<<>>} \cup {<<a>> : a \in FnAnchors}
                      \cup {<<a, b>> : a \in FnAnchors, b \in FnAnchors}
                      \cup {<<a, b, c>> : a \in FnAnchors, b \in FnAnchors,
                                          c \in {Anchor("Next", Path(P2), TRUE, FALSE)}},
        ln \in {NoNode, Path(P2)},
        lm \in BOOLEAN }

\* One attempt of a fetch, as the network answers it: a response with a
\* status, a network error, a timeout, or an error of another kind (status 0
\* when there is no response).
Answer(kind, status) == [kind |-> kind, status |-> status]

FnAnswers ==
    { Answer("response", 200), Answer("response", 404), Answer("response", 429),
      Answer("response", 500), Answer("network", 0), Answer("timeout", 0),
      Answer("other", 0) }

MaxAttempts == 3

\* Whether the attempt returns (html, status).  HTTPFetcher.fetch, lines
\* 96-99: raise_for_status raises httpx.HTTPStatusError unless the status is
\* 2xx.  PlaywrightFetcher.fetch, lines 161-174: the status of the response is
\* read and returned, whatever it is.
AttemptReturns(path, answer) ==
    IF path = "httpx"
    THEN answer.kind = "response" /\ answer.status \in 200..299
    ELSE answer.kind = "response"

\* Whether tenacity retries the exception of a failed attempt.  HTTPFetcher:
\* retry_if_exception_type((httpx.HTTPError, asyncio.TimeoutError)), and
\* HTTPStatusError, the transport errors and the timeouts of httpx are all
\* httpx.HTTPError.  PlaywrightFetcher: no retry argument, so every Exception.
AttemptRetried(path, answer) ==
    IF path = "httpx"
    THEN answer.kind \in {"response", "network", "timeout"}
    ELSE TRUE

\* fetch under @retry(stop=stop_after_attempt(3), ...): answers[n] is what
\* the n-th attempt meets.  The result is [raised, status, attempts].
RECURSIVE fetch_attempt(_, _, _)
fetch_attempt(path, answers, n) ==
    IF AttemptReturns(path, answers[n])
    THEN [raised |-> FALSE, status |-> answers[n].status, attempts |-> n]
    ELSE IF AttemptRetried(path, answers[n]) /\ n < MaxAttempts
         THEN fetch_attempt(path, answers, n + 1)
         ELSE [raised |-> TRUE, status |-> answers[n].status, attempts |-> n]

\* SmartFetcher.fetch(url, use_playwright)
fetch(use_playwright, answers) ==
    fetch_attempt(IF use_playwright THEN "playwright" ELSE "httpx", answers, 1)

\* _crawl, lines 221-249: what the loop does with the outcome of fetch.
page_outcome(result) == IF result.raised THEN "page_fetch_failed" ELSE "page_fetched"

(***************************************************************************)
(* The augmenter (extractor/llm_extractor.py).  An augmenter is           *)
(* [present, enabled, calls_made, budget]: whether the pipeline has an    *)
(* LLMExtractor, whether it has a client, its calls so far and            *)
(* config.llm_budget.  A reply is what the provider call meets:           *)
(*   "object"     : the content parses to a JSON object, data             *)
(*   "not_object" : the content parses to a JSON value that is no object  *)
(*   "malformed"  : the content does not parse                            *)
(*   "no_content" : the response has no content                           *)
(*   "raises"     : the call to the remote service raises                 *)
(* None is the record [some |-> FALSE].                                    *)
(***************************************************************************)
Augmenter(present, enabled, calls_made, budget) ==
    [present |-> present, enabled |-> enabled, calls_made |-> calls_made,
     budget |-> budget]

Reply(kind, data) == [kind |-> kind, data |-> data]

None == [some |-> FALSE]

Some(v) == [some |-> TRUE, value |-> v]

Returned(v) == [raised |-> FALSE, value |-> v]

Raised == [raised |-> TRUE, value |-> None]

\* The truth value of a dict: whether it has a key.  Data has every key of
\* the model, so a reply object is empty when all its values are missing.
Truthy(data) == \E f \in DOMAIN data : data[f] # ""

\* No exception handler around the provider call.
MutExtractNoHandler(aug, page_url, reply) ==
    IF ~aug.enabled \/ aug.calls_made >= aug.budget THEN Returned(None)
    ELSE IF reply.kind \in {"raises", "not_object"} THEN Raised
    ELSE IF reply.kind = "object" /\ Truthy(reply.data)
         THEN Returned(Some([reply.data EXCEPT !.page_url = page_url]))
         ELSE Returned(None)

\* LLMExtractor._extract_openai / _extract_anthropic: the parsed content, None
\* when there is no content or it does not parse (the JSONDecodeError is
\* caught there), and the exception of the remote call when it raises.
extract_provider(reply) ==
    CASE reply.kind = "raises" -> Raised
      [] reply.kind \in {"malformed", "no_content"} -> Returned(None)
      [] OTHER -> Returned(Some(reply))

\* LLMExtractor.extract, lines 57-86: None without a client or beyond the
\* budget; inside the try, "result[\"page_url\"] = page_url" raises TypeError
\* on a value that is no object; "except Exception" turns every exception
\* into None.
extract(aug, page_url, reply) ==
    IF ~aug.enabled \/ aug.calls_made >= aug.budget THEN Returned(None)
    ELSE LET result == extract_provider(reply)
         IN  IF result.raised THEN Returned(None)
             ELSE IF ~result.value.some THEN Returned(None)
             ELSE IF result.value.value.kind = "not_object" THEN Returned(None)
             ELSE IF ~Truthy(result.value.value.data) THEN Returned(None)
             ELSE Returned(Some([result.value.value.data EXCEPT !.page_url = page_url]))

\* hybrid_extract with every missing or present field taken from the reply.
MutHybridOverwrites(aug, heuristic_data, required, page_url, reply) ==
    LET llm_data == extract(aug, page_url, reply)
    IN  IF llm_data.raised THEN Raised
        ELSE IF llm_data.value.some
             THEN Returned([f \in DOMAIN heuristic_data |->
                              IF llm_data.value.value[f] # "" THEN llm_data.value.value[f]
                              ELSE heuristic_data[f]])
             ELSE Returned(heuristic_data)

\* hybrid_extract, lines 219-239; required is the set of the schema's
\* required fields.
hybrid_extract(aug, heuristic_data, required, page_url, reply) ==
    LET missing_fields == {f \in required : heuristic_data[f] = ""}
    IN  IF missing_fields # {} /\ aug.present /\ aug.enabled
        THEN LET llm_data == extract(aug, page_url, reply)
             IN  IF llm_data.raised THEN Raised
                 ELSE IF llm_data.value.some
                      THEN Returned([f \in DOMAIN heuristic_data |->
                                       IF f \in missing_fields /\ llm_data.value.value[f] # ""
                                       THEN llm_data.value.value[f]
                                       ELSE heuristic_data[f]])
                      ELSE Returned(heuristic_data)
        ELSE Returned(heuristic_data)

\* _extract_from_detail_page, lines 343-354: "if llm_extractor: record_data =
\* await hybrid_extract(...)".
augmented(aug, heuristic_data, required, page_url, reply) ==
    IF aug.present
    THEN hybrid_extract(aug, heuristic_data, required, page_url, reply)
    ELSE Returned(heuristic_data)

\* The extract calls of one run on one LLMExtractor, one per reply of the
\* service: calls_made is the extractor's counter, requests the number of
\* requests that went out to the service.  A request goes out when the
\* extractor is enabled and calls_made is below the budget (lines 57-62, 70-76);
\* calls_made is raised only when extract returns a result (lines 78-81).
RECURSIVE extract_all(_, _, _)
extract_all(aug, replies, requests) ==
    IF replies = <<>> THEN [calls_made |-> aug.calls_made, requests |-> requests]
    ELSE LET sent == aug.enabled /\ aug.calls_made < aug.budget
             out == extract(aug, "", Head(replies))
             counted == ~out.raised /\ out.value.some
         IN  extract_all([aug EXCEPT !.calls_made = IF counted THEN @ + 1 ELSE @],
                         Tail(replies),
                         IF sent THEN requests + 1 ELSE requests)

MaxBudget == 2       \* config.llm_budget is drawn from 0..MaxBudget

FnAugmenters ==
    { Augmenter(FALSE, FALSE, 0, 1), Augmenter(TRUE, FALSE, 0, 1),
      Augmenter(TRUE, TRUE, 0, 1), Augmenter(TRUE, TRUE, 1, 1) }

FnHeuristicData ==
    { Data(p, n, e) : p \in {"http://a/people/x"}, n \in {"", "Ann "},
                      e \in {"", "ann@x.org"} }

FnReplies ==
    { Reply("object", Data("", n, e)) : n \in {"", "Bob"}, e \in {"", "ANN@X.ORG"} }
        \cup { Reply(k, Data("", "", "")) :
                  k \in {"not_object", "malformed", "no_content", "raises"} }

FnRequired == { {}, {"name"}, {"name", "email"} }

(***************************************************************************)
(* Field resolvers on a profile page.  The markup is the text of the first *)
(* node each selector finds ("" when no node matches or the node is empty, *)
(* which the resolvers treat alike): h1, the content of the og:title and   *)
(* twitter:title meta tags, [itemprop="name"], [itemprop="jobTitle"], and  *)
(* the nodes of the four class selectors of resolve_title in their order.  *)
(***************************************************************************)
Markup(h1, og_title, twitter_title, itemprop_name, job_title, class_nodes) ==
    [h1 |-> h1, og_title |-> og_title, twitter_title |-> twitter_title,
     itemprop_name |-> itemprop_name, job_title |-> job_title,
     class_nodes |-> class_nodes]

\* A text of 100 characters, the first length outside the name window.
LongText == "Professor of xxxxxxxxxxxxxxxxxxxxxxxxxxxxxxxxxxxxxxxxxxxxxxxxxxxxxxxxxxxxxxxxxxxxxxxxxxxxxxxxxxxxxxx"

\* utils.clean_text on the texts of the model: whitespace collapsed, outer
\* blanks stripped.
clean_text(text) ==
    CASE text = "    " -> ""
      [] text = "Dr.  Jane Doe " -> "Dr. Jane Doe"
      [] OTHER -> text

InNameWindow(text) == text # "" /\ 3 < Len(text) /\ Len(text) < 100

\* FieldResolvers.resolve_name: h1, then the meta tags, then schema.org.
\* The meta content is measured before it is cleaned.
resolve_name(tree) ==
    IF InNameWindow(clean_text(tree.h1)) THEN clean_text(tree.h1)
    ELSE IF InNameWindow(tree.og_title) THEN clean_text(tree.og_title)
    ELSE IF InNameWindow(tree.twitter_title) THEN clean_text(tree.twitter_title)
    ELSE IF InNameWindow(clean_text(tree.itemprop_name)) THEN clean_text(tree.itemprop_name)
    ELSE ""

\* The loop over the class selectors of resolve_title, from selector i.
RECURSIVE resolve_title_by_class(_, _)
resolve_title_by_class(tree, i) ==
    IF i > Len(tree.class_nodes) THEN ""
    ELSE LET title == clean_text(tree.class_nodes[i])
         IN  IF /\ title # ""
                /\ Len(title) < 200
                /\ Lower(title) # Lower(resolve_name(tree))
             THEN title
             ELSE resolve_title_by_class(tree, i + 1)

\* FieldResolvers.resolve_title: the jobTitle node is returned as it is, the
\* class selectors are compared with the name.
resolve_title(tree) ==
    IF clean_text(tree.job_title) # "" THEN clean_text(tree.job_title)
    ELSE resolve_title_by_class(tree, 1)

\* The selectors of the loop: [class*="title"], [class*="position"],
\* [class*="role"], .job-title.
ClassSelectors == 4

FnMarkup ==
    { Markup(h1, og, tw, ip, jt, cn) :
        h1 \in {"", "Bio", "Faculty Profile", "Dr.  Jane Doe ", LongText},
        og \in {"", "    ", "Dr. Jane Doe"},
        tw \in {"", "DR. JANE DOE"},
        ip \in {"", "Dr. Jane Doe"},
        jt \in {"", "Professor", "DR. JANE DOE"},
        cn \in [1..ClassSelectors -> {"", "Professor", "Dr. Jane Doe"}] }

\* The log_event calls of runs that share a store, in the order the store
\* serves them: each is [run_id, kind, key].
FnLogCalls ==
    UNION { [1..n -> { Event(r, "page_fetched", k) :
                          r \in RunIds, k \in {task_id(L), task_id(P2)} }] :
              n \in 0..MaxFnLen }

\* The events table after the calls, from an empty table.
RECURSIVE LogAll(_, _)
LogAll(evs, log_calls) ==
    IF log_calls = <<>> THEN evs
    ELSE LogAll(log_event(evs, Head(log_calls).run_id, Head(log_calls).kind,
                          Head(log_calls).key),
                Tail(log_calls))

InitFn ==
    /\ pc = "function"
    /\ force = FALSE
    /\ max_pages = 0
    /\ max_runtime = 0
    /\ respect_robots = FALSE
    /\ run_id = "r1"
    /\ runs = [r \in RunIds |-> NoRow]
    /\ events = <<>>
    /\ n_prior = 0
    /\ clock = 0
    /\ start_time = 0
    /\ processed = 0
    /\ task_queue = <<>>
    /\ seen_urls = {}
    /\ records = <<>>
    /\ seen_record_ids = {}
    /\ metadata = NewMetadata("r1")
    /\ written = <<>>
    /\ fetcher_made = FALSE
    /\ fetch_calls = 0
    /\ last_step = "none"
    /\ link_tasks = <<>>
    /\ extract_errors = 0
    /\ base_url = L
    /\ calls = 0
    /\ produced_ids = {}
    /\ produced_n = 0
    /\ site = "any"
    /\ last_empty = FALSE
    /\ fn_args = <<>>
    /\ fn_result = <<>>
    /\ limiter = <<>>

fn_frame == <<force, max_pages, max_runtime, respect_robots, run_id, runs,
              events, n_prior, clock, start_time, processed, task_queue, seen_urls,
              records, seen_record_ids, metadata, written, fetcher_made, fetch_calls,
              last_step, link_tasks, extract_errors, base_url, calls, produced_ids,
              produced_n, site, last_empty, limiter>>

\* deduplicate_records(records, key_fields)
CallDeduplicateRecords ==
    /\ pc = "function"
    /\ pc' = "called"
    /\ \E rs \in FnLists, key_fields \in FnKeyFields :
          /\ fn_args' = FnCall("deduplicate_records", <<rs, key_fields>>)
          /\ fn_result' = deduplicate_records(rs, key_fields)
    /\ UNCHANGED fn_frame

\* a.record_id and b.record_id of two records
CallRecordId ==
    /\ pc = "function"
    /\ pc' = "called"
    /\ \E a \in FnRecords, b \in FnRecords :
          /\ fn_args' = FnCall("record_id", <<a, b>>)
          /\ fn_result' = <<record_id(a), record_id(b)>>
    /\ UNCHANGED fn_frame

\* PageTask(url=u1).task_id and PageTask(url=u2).task_id
CallSetTaskId ==
    /\ pc = "function"
    /\ pc' = "called"
    /\ \E u1 \in FnUrls, u2 \in FnUrls :
          /\ fn_args' = FnCall("set_task_id", <<u1, u2>>)
          /\ fn_result' = <<PageTask(u1, 0).task_id, PageTask(u2, 0).task_id>>
    /\ UNCHANGED fn_frame

\* PaginationDetector(base).detect_strategy(tree)
CallDetectStrategy ==
    /\ pc = "function"
    /\ pc' = "called"
    /\ \E tree \in FnTrees, base \in {L, Cur} :
          /\ fn_args' = FnCall("detect_strategy", <<tree, base>>)
          /\ fn_result' = detect_strategy(tree, base)
    /\ UNCHANGED fn_frame

\* fetcher.fetch(task.url, use_playwright=...) as _crawl calls it
CallFetch ==
    /\ pc = "function"
    /\ pc' = "called"
    /\ \E use_playwright \in BOOLEAN, answers \in [1..MaxAttempts -> FnAnswers] :
          /\ fn_args' = FnCall("fetch", <<use_playwright, answers>>)
          /\ fn_result' =
                LET result == fetch(use_playwright, answers)
                IN  [raised |-> result.raised, status |-> result.status,
                     attempts |-> result.attempts, page |-> page_outcome(result)]
    /\ UNCHANGED fn_frame

\* _extract_from_detail_page: the record data after the augmenter had its turn
CallAugment ==
    /\ pc = "function"
    /\ pc' = "called"
    /\ \E aug \in FnAugmenters, heuristic_data \in FnHeuristicData,
          required \in FnRequired, reply \in FnReplies :
          /\ fn_args' = FnCall("hybrid_extract", <<aug, heuristic_data, required, reply>>)
          /\ fn_result' = augmented(aug, heuristic_data, required, UrlStr(D), reply)
    /\ UNCHANGED fn_frame

\* history.is_task_completed(run_id, task_id) after log_event calls of two runs
CallIsTaskCompleted ==
    /\ pc = "function"
    /\ pc' = "called"
    /\ \E log_calls \in FnLogCalls, r \in RunIds, k \in {task_id(L), task_id(P2)} :
          /\ fn_args' = FnCall("is_task_completed", <<log_calls, r, k>>)
          /\ fn_result' = is_task_completed(LogAll(<<>>, log_calls), r, k)
    /\ UNCHANGED fn_frame

\* resolve_all_fields(tree, page_url): the name and title entries
CallResolveFields ==
    /\ pc = "function"
    /\ pc' = "called"
    /\ \E tree \in FnMarkup :
          /\ fn_args' = FnCall("resolve_all_fields", <<tree>>)
          /\ fn_result' = [name |-> resolve_name(tree), title |-> resolve_title(tree)]
    /\ UNCHANGED fn_frame

\* _extract_from_list_page, lines 321-332, on a page of a crawl whose page
\* budget is max (0 for none); _crawl does not hand the budget on.
CallListPagination ==
    /\ pc = "function"
    /\ pc' = "called"
    /\ \E tree \in PagTrees \cup ListTrees,
          next_page_selector \in {"", "a[href*=cursor]"},
          pagination_strategy \in {""} \cup Strategies,
          start_url \in {L, Cur}, page_url \in {L, Cur},
          seen \in {{}, {SeenKey(P2)}}, max \in 0..MaxPagesArg :
          \E hints \in {SiteHints("", next_page_selector, "", pagination_strategy)} :
            /\ fn_args' = FnCall("_extract_from_list_page",
                                  <<hints, tree, start_url, page_url, seen, max>>)
            /\ fn_result' = list_page_next_pages(hints, tree, start_url, page_url, seen)
    /\ UNCHANGED fn_frame

\* The detail links of a listing page with n links, the first of them a
\* link to another kind of page when other is set.
ManyLinks(n, other) ==
    [i \in 1..n |-> IF other /\ i = 1 THEN Url(<<"about">>, FALSE, <<>>, "")
                    ELSE Url(<<"people", ToString(i)>>, FALSE, <<>>, "")]

\* _extract_from_list_page, lines 313-319, on the links of one listing page
CallDetailTasks ==
    /\ pc = "function"
    /\ pc' = "called"
    /\ \E n \in {0, 1, DetailCap - 1, DetailCap, DetailCap + 1, DetailCap + 3},
          other \in BOOLEAN :
          /\ fn_args' = FnCall("detail_tasks", <<ManyLinks(n, other)>>)
          /\ fn_result' = DetailTasks(ManyLinks(n, other))
    /\ UNCHANGED fn_frame

\* utils.normalize_url and models.normalize_url on the same two URLs: the
\* keys of the seen-URL set and the task IDs
CallNormalizeBoth ==
    /\ pc = "function"
    /\ pc' = "called"
    /\ \E u1 \in FnUrls, u2 \in FnUrls :
          /\ fn_args' = FnCall("normalize_url", <<u1, u2>>)
          /\ fn_result' = [seen |-> <<SeenKey(u1), SeenKey(u2)>>,
                            task |-> <<task_id(u1), task_id(u2)>>]
    /\ UNCHANGED fn_frame

\* The extract calls of a run with use_llm and the llm_calls it reports
\* (run(), lines 153-154)
CallExtractAll ==
    /\ pc = "function"
    /\ pc' = "called"
    /\ \E budget \in 0..MaxBudget,
          replies \in UNION { [1..n -> FnReplies] : n \in 0..MaxFnLen } :
          \E out \in {extract_all(Augmenter(TRUE, TRUE, 0, budget), replies, 0)} :
            /\ fn_args' = FnCall("extract_all", <<budget, replies>>)
            /\ fn_result' = [llm_calls |-> out.calls_made, requests |-> out.requests]
    /\ UNCHANGED fn_frame

NextFn ==
    \/ CallDeduplicateRecords
    \/ CallRecordId
    \/ CallSetTaskId
    \/ CallDetectStrategy
    \/ CallFetch
    \/ CallAugment
    \/ CallIsTaskCompleted
    \/ CallResolveFields
    \/ CallListPagination
    \/ CallDetailTasks
    \/ CallNormalizeBoth
    \/ CallExtractAll

SpecFn == InitFn /\ [][NextFn]_vars

(***************************************************************************)
(* The rate limiter (fetcher.RateLimiter) on its own: one token bucket    *)
(* and the coroutines that call acquire() on it.  A token is Grain parts; *)
(* the clock of the event loop counts ticks of 1/(rate * Grain) seconds,  *)
(* so that "elapsed * self.rate" is one part per tick and one second is   *)
(* rate * Grain ticks.  limiter is                                         *)
(*   rate        : self.rate, tokens per second                            *)
(*   tokens      : self.tokens, in parts                                   *)
(*   last_update : self.last_update, in ticks                              *)
(*   now         : loop.time(), in ticks                                   *)
(*   owner       : the coroutine inside "async with self.lock", 0 if none *)
(*   waiters     : the coroutines queued on self.lock, in arrival order   *)
(*   at          : where each coroutine stands                             *)
(*   wake        : when the asyncio.sleep of the owner ends                *)
(*   started     : number of acquire() calls made                          *)
(*   returned    : number of acquire() calls that returned                 *)
(***************************************************************************)
Grain == 2           \* parts of a token the model tells apart

MaxNow == 6          \* the clock advances freely up to MaxNow ticks

MaxAcquires == 5     \* acquire() is called at most MaxAcquires times

Rates == {1, 2}

Callers == {1, 2}

Min(a, b) == IF a < b THEN a ELSE b

\* RateLimiter.__init__
NewLimiter(rate) ==
    [rate |-> rate, tokens |-> rate * Grain, last_update |-> 0, now |-> 0,
     owner |-> 0, waiters |-> <<>>, at |-> [c \in Callers |-> "idle"],
     wake |-> 0, started |-> 0, returned |-> 0]

InitLimiter ==
    /\ pc = "limiter"
    /\ force = FALSE
    /\ max_pages = 0
    /\ max_runtime = 0
    /\ respect_robots = FALSE
    /\ run_id = "r1"
    /\ runs = [r \in RunIds |-> NoRow]
    /\ events = <<>>
    /\ n_prior = 0
    /\ clock = 0
    /\ start_time = 0
    /\ processed = 0
    /\ task_queue = <<>>
    /\ seen_urls = {}
    /\ records = <<>>
    /\ seen_record_ids = {}
    /\ metadata = NewMetadata("r1")
    /\ written = <<>>
    /\ fetcher_made = FALSE
    /\ fetch_calls = 0
    /\ last_step = "none"
    /\ link_tasks = <<>>
    /\ extract_errors = 0
    /\ base_url = L
    /\ calls = 0
    /\ produced_ids = {}
    /\ produced_n = 0
    /\ site = "any"
    /\ last_empty = FALSE
    /\ fn_args = <<>>
    /\ fn_result = <<>>
    /\ \E rate \in Rates : limiter = NewLimiter(rate)

limiter_frame == <<pc, force, max_pages, max_runtime, respect_robots, run_id, runs,
                   events, n_prior, clock, start_time, processed, task_queue, seen_urls,
                   records, seen_record_ids, metadata, written, fetcher_made,
                   fetch_calls, last_step, link_tasks, extract_errors, base_url, calls,
                   produced_ids, produced_n, site, last_empty, fn_args, fn_result>>

\* Leaving "async with self.lock": the lock is free for the first waiter.
Released(lim) == [lim EXCEPT !.owner = 0]

\* The refill: "self.tokens = min(self.rate, self.tokens + elapsed * self.rate)".
Refilled(lim) == Min(lim.rate * Grain, lim.tokens + (lim.now - lim.last_update))

\* acquire() with the sleep outside "async with self.lock".
MutSleepOutsideLock(lim, c) ==
    LET tokens == Min(lim.rate * Grain, lim.tokens + (lim.now - lim.last_update))
        timed == [lim EXCEPT !.tokens = tokens, !.last_update = lim.now]
    IN  IF tokens < Grain
        THEN [timed EXCEPT !.wake = lim.now + (Grain - tokens), !.at[c] = "sleeping",
                           !.owner = 0]
        ELSE [timed EXCEPT !.tokens = tokens - Grain, !.at[c] = "returned",
                           !.returned = @ + 1, !.owner = 0]

\* Lines 40-50 up to the await: refill, then wait for the missing part of a
\* token or deduct one token and return.
RefillThenWaitOrDeduct(lim, c) ==
    LET tokens == Refilled(lim)
        timed == [lim EXCEPT !.tokens = tokens, !.last_update = lim.now]
    IN  IF tokens < Grain
        THEN [timed EXCEPT !.wake = lim.now + (Grain - tokens), !.at[c] = "sleeping"]
        ELSE Released([timed EXCEPT !.tokens = tokens - Grain, !.at[c] = "returned",
                                    !.returned = @ + 1])

\* Line 48, after the sleep: "self.tokens = 0", and acquire() returns.
AfterSleep(lim, c) ==
    Released([lim EXCEPT !.tokens = 0, !.at[c] = "returned", !.returned = @ + 1])

\* A coroutine calls acquire(): "async with self.lock" takes the lock if it
\* is free and nobody waits for it, and queues the coroutine otherwise.
AcquireCalled(c) ==
    /\ pc = "limiter"
    /\ limiter.at[c] \in {"idle", "returned"}
    /\ limiter.started < MaxAcquires
    /\ limiter' =
          IF limiter.owner = 0 /\ limiter.waiters = <<>>
          THEN [limiter EXCEPT !.owner = c, !.at[c] = "locked", !.started = @ + 1]
          ELSE [limiter EXCEPT !.waiters = Append(@, c), !.at[c] = "waiting",
                               !.started = @ + 1]
    /\ UNCHANGED limiter_frame

\* asyncio.Lock wakes its first waiter once the lock is released.
LockGranted(c) ==
    /\ pc = "limiter"
    /\ limiter.owner = 0
    /\ limiter.waiters # <<>>
    /\ Head(limiter.waiters) = c
    /\ limiter' = [limiter EXCEPT !.owner = c, !.waiters = Tail(@), !.at[c] = "locked"]
    /\ UNCHANGED limiter_frame

\* Lines 40-50 up to the await, run without yielding to the event loop.
RefillStep(c) ==
    /\ pc = "limiter"
    /\ limiter.at[c] = "locked"
    /\ limiter' = RefillThenWaitOrDeduct(limiter, c)
    /\ UNCHANGED limiter_frame

\* asyncio.sleep(wait_time) ends.
SleepEnds(c) ==
    /\ pc = "limiter"
    /\ limiter.at[c] = "sleeping"
    /\ limiter.now >= limiter.wake
    /\ limiter' = AfterSleep(limiter, c)
    /\ UNCHANGED limiter_frame

\* Time passes: freely up to MaxNow, and as long as a sleep has not ended.
TimePasses ==
    /\ pc = "limiter"
    /\ \/ limiter.now < MaxNow
       \/ \E c \in Callers : limiter.at[c] = "sleeping" /\ limiter.now < limiter.wake
    /\ limiter' = [limiter EXCEPT !.now = @ + 1]
    /\ UNCHANGED limiter_frame

NextLimiter ==
    \/ \E c \in Callers : AcquireCalled(c)
    \/ \E c \in Callers : LockGranted(c)
    \/ \E c \in Callers : RefillStep(c)
    \/ \E c \in Callers : SleepEnds(c)
    \/ TimePasses

SpecLimiter == InitLimiter /\ [][NextLimiter]_vars

\* The event loop runs every coroutine that is ready, and its timers fire.
FairSpecLimiter ==
    /\ SpecLimiter
    /\ WF_vars(TimePasses)
    /\ \A c \in Callers :
          /\ WF_vars(LockGranted(c))
          /\ WF_vars(RefillStep(c))
          /\ WF_vars(SleepEnds(c))

\* The scheduler runs the coroutine of run() until it returns or raises; every
\* await of the model (network, store, file) completes or fails.
FairSpec == Spec /\ WF_vars(Next)

(***************************************************************************)
(* Properties.                                                             *)
(***************************************************************************)
\* The rows of events this run logged.
Logged == (n_prior + 1)..Len(events)

\* The store held, before this run, an event of this run ID for the start URL.
StartCompletedBefore ==
    \E i \in 1..n_prior :
        events[i].run_id = run_id /\ events[i].key = task_id(base_url)

\* C1: with force=false no task ID is fetched successfully twice in one run:
\* an event this run logs has a (run ID, task ID) no other row of the log has.
C1_FetchedOncePerRun ==
    ~force =>
        \A j \in Logged : \A i \in DOMAIN events :
            (i # j /\ events[i].run_id = events[j].run_id) => events[i].key # events[j].key

\* A task queued twice (no event before the run) was skipped the second time.
C1_Witness ==
    /\ ~force
    /\ n_prior = 0
    /\ last_step = "skipped"
    /\ Len(events) >= 2

\* C2: a failed fetch adds one to pages_failed and nothing else to the
\* metadata, and the loop goes on with the tasks that were behind it.
C2_FetchFailureContinues ==
    [][(fetch_calls' = fetch_calls + 1 /\ last_step' = "fetch_failed") =>
          /\ metadata'.pages_failed = metadata.pages_failed + 1
          /\ metadata'.pages_fetched = metadata.pages_fetched
          /\ metadata'.errors = metadata.errors
          /\ pc' = "loop"
          /\ task_queue' = Tail(task_queue)]_vars

\* A fetch has failed and the loop stands before the next queued task.
C2_Witness ==
    /\ last_step = "fetch_failed"
    /\ metadata.pages_failed = 1
    /\ pc = "loop"
    /\ task_queue # <<>>

\* C3: an extraction error, on a listing page or on a detail page, is caught
\* and skipped: the loop goes on and no error ends the crawl.
C3_ExtractionErrorSkipped ==
    [][extract_errors' > extract_errors =>
          /\ pc' = "loop"
          /\ metadata'.errors = metadata.errors]_vars

\* The closed form of deduplicate_records is its loop, on every buffer.
DedupAgrees ==
    LET records_data == [i \in DOMAIN records |-> records[i].data]
    IN  \A fields \in {<<"page_url", "name">>, <<"name", "email">>, <<"email">>} :
          \A rs \in {records_data, records_data \o records_data} :
            deduplicate_records(rs, fields) = DedupLoop(rs, fields, {}, <<>>)

\* What the run hands over when it returns after its crawl loop.
Finalized ==
    /\ metadata.completed_at # -1
    /\ metadata.duration_ms = metadata.completed_at * 1000
    /\ written = deduplicate_records([i \in DOMAIN records |-> records[i].data],
                                     <<"page_url", "name">>)
    /\ metadata.records_extracted = Len(records)
    /\ metadata.records_extracted = Cardinality(produced_ids)
    /\ metadata.pages_fetched = Len(events) - n_prior
    /\ (last_step = "detail_raised") = (metadata.errors # <<>>)

C5_RobotsDenied ==
    /\ last_step = "denied" =>
          /\ pc = "returned"
          /\ metadata.pages_fetched = 0
          /\ metadata.errors = <<"Disallowed by robots.txt">>
          /\ ~fetcher_made
          /\ fetch_calls = 0
    /\ pc \in {"constructed", "robots"} => (~fetcher_made /\ fetch_calls = 0)

C5_Witness ==
    /\ respect_robots
    /\ last_step = "denied"
    /\ pc = "returned"

\* The run's row holds the metadata as returned.
RowIsFinal ==
    /\ runs[run_id].present
    /\ runs[run_id].completed_at = metadata.completed_at
    /\ runs[run_id].completed_at # -1
    /\ runs[run_id].pages_fetched = metadata.pages_fetched
    /\ runs[run_id].pages_failed = metadata.pages_failed
    /\ runs[run_id].records_extracted = metadata.records_extracted
    /\ runs[run_id].records_valid = metadata.records_valid
    /\ runs[run_id].duration_ms = metadata.duration_ms
    /\ runs[run_id].errors = metadata.errors

\* C6 as claimed: whenever run() has returned the metadata, the store holds
\* the run's row with the final counts.
C6_EveryReturnPersisted == pc = "returned" => RowIsFinal

\* C6: a run that passed the pre-flight gate has its row in the store from
\* before its first fetch (not yet completed), and when it returns the row
\* holds the final counts, duration and errors.
C6_PersistedAfterGate ==
    /\ (pc = "returned" /\ fetcher_made) => RowIsFinal
    /\ pc \in {"loop", "finalize"} =>
          (runs[run_id].present /\ runs[run_id].completed_at = -1)
    /\ fetch_calls > 0 => runs[run_id].present

C6_Witness ==
    /\ pc = "returned"
    /\ fetcher_made
    /\ metadata.pages_fetched >= 2
    /\ metadata.pages_failed >= 1
    /\ metadata.errors # <<>>

\* C7: a run with force=false over a store that already holds this run ID's
\* event for the start URL (so for every discovered page) fetches nothing.
C7_RerunFetchesNothing ==
    (~force /\ StartCompletedBefore) => fetch_calls = 0

\* Such a run went through its loop, skipped the seed and returned.
C7_Witness ==
    /\ ~force
    /\ StartCompletedBefore
    /\ last_step = "skipped"
    /\ pc = "returned"
    /\ n_prior = 3

\* C8: link discovery queues no page twice: no two tasks it emitted have the
\* same normalized URL.
C8_NoPageQueuedTwice ==
    \A i, j \in DOMAIN link_tasks :
        i # j => SeenKey(link_tasks[i].task.url) # SeenKey(link_tasks[j].task.url)

\* The tasks the pagination engine emitted.
PaginationTasks == SelectSeq(link_tasks, LAMBDA t : t.via \in {"pagination", "generated"})

\* C9: over all calls on one detector no two emitted tasks have the same
\* normalized URL, the seen-URL set holds the normalized URL of every
\* emitted task, and the set only grows.
C9_SeenUrls ==
    /\ [](\A i, j \in DOMAIN PaginationTasks :
            i # j => SeenKey(PaginationTasks[i].task.url) # SeenKey(PaginationTasks[j].task.url))
    /\ []({SeenKey(PaginationTasks[i].task.url) : i \in DOMAIN PaginationTasks} = seen_urls)
    /\ [][seen_urls \subseteq seen_urls']_vars

\* Both entry points have emitted tasks and a later call emitted nothing new.
C9_Witness ==
    /\ calls = 3
    /\ Cardinality(seen_urls) = 2
    /\ \E i, j \in DOMAIN link_tasks :
          link_tasks[i].via = "pagination" /\ link_tasks[j].via = "generated"

\* C10: the buffer holds no record_id twice, the seen-record-ID set is the
\* set of the buffered records' IDs, and a produced record is in the buffer
\* iff no record of its ID was produced before it (every produced ID is
\* buffered, once).
C10_BufferDeduplicated ==
    /\ \A i, j \in DOMAIN records : i # j => record_id(records[i]) # record_id(records[j])
    /\ seen_record_ids = {record_id(records[i]) : i \in DOMAIN records}
    /\ seen_record_ids = produced_ids

\* Records were produced with an ID already buffered, and dropped.
C10_Witness ==
    /\ Len(records) >= 2
    /\ produced_n > Len(records)

RECURSIVE IsSubsequence(_, _)
IsSubsequence(a, b) ==
    IF a = <<>> THEN TRUE
    ELSE IF b = <<>> THEN FALSE
    ELSE IF Head(a) = Head(b) THEN IsSubsequence(Tail(a), Tail(b))
    ELSE IsSubsequence(a, Tail(b))

\* The key of the second deduplication pass: page_url and name, lower-cased
\* and trimmed; "" when the record has neither.
HandoffKey(d) == Join(KeyParts(d, <<"page_url", "name">>), "|")

HasHandoffKey(d) == KeyParts(d, <<"page_url", "name">>) # <<>>

\* C11: when the run returns after its crawl, the list given to the writer is
\* the buffer without its later duplicates: no two of its records have the
\* same non-empty key, it is the buffer in buffer order with the first record
\* of every key and every record without a key, and records_valid is its
\* length, at most records_extracted (the length of the buffer).
C11_SecondDedupPass ==
    (pc = "returned" /\ metadata.completed_at # -1) =>
        LET data == [i \in DOMAIN records |-> records[i].data]
            first(i) == \A j \in 1..(i - 1) : HandoffKey(data[j]) # HandoffKey(data[i])
        IN  /\ \A i \in DOMAIN written : \A j \in DOMAIN written :
                  (i < j /\ HasHandoffKey(written[i]) /\ HasHandoffKey(written[j])) =>
                      HandoffKey(written[i]) # HandoffKey(written[j])
            /\ IsSubsequence(written, data)
            /\ \A i \in DOMAIN data :
                  (HasHandoffKey(data[i]) /\ first(i)) =>
                      \E k \in DOMAIN written : written[k] = data[i]
            /\ Cardinality({k \in DOMAIN written : ~HasHandoffKey(written[k])})
                  = Cardinality({i \in DOMAIN data : ~HasHandoffKey(data[i])})
            /\ metadata.records_extracted = Len(records)
            /\ metadata.records_valid = Len(written)
            /\ metadata.records_valid <= metadata.records_extracted

\* The second pass dropped a record the buffer had retained.
C11_Witness ==
    /\ pc = "returned"
    /\ metadata.completed_at # -1
    /\ Len(written) >= 1
    /\ Len(written) < Len(records)

\* C12: deduplicate_records is idempotent: on every record list and every
\* key-field list, deduplicating what it returned returns the same records in
\* the same order (and what it returned is what the loop of the code builds).
C12_DedupIdempotent ==
    (pc = "called" /\ fn_args.fn = "deduplicate_records") =>
        /\ deduplicate_records(fn_result, fn_args.args[2]) = fn_result
        /\ fn_result = DedupLoop(fn_args.args[1], fn_args.args[2], {}, <<>>)
        /\ DedupLoop(fn_result, fn_args.args[2], {}, <<>>) = fn_result

\* A list of three records from which the first pass dropped a duplicate.
C12_Witness ==
    /\ pc = "called"
    /\ fn_args.fn = "deduplicate_records"
    /\ Len(fn_args.args[1]) = 3
    /\ fn_args.args[2] = <<"page_url", "name">>
    /\ Len(fn_result) = 2

\* lower().strip() of a field value.
Folded(v) == Strip(Lower(v))

\* C13: record_id depends on the identifying fields only: two records with
\* the same non-empty page URL have the same record_id whatever their names
\* and addresses; two records without a page URL whose names and addresses
\* are the same up to case and outer blanks (one of the two present) have the
\* same record_id whatever their source URLs.
C13_RecordIdStable ==
    (pc = "called" /\ fn_args.fn = "record_id") =>
        LET a == fn_args.args[1]
            b == fn_args.args[2]
            same_person == /\ Folded(a.data.name) = Folded(b.data.name)
                           /\ Folded(a.data.email) = Folded(b.data.email)
            has_person(r) == r.data.name # "" \/ r.data.email # ""
        IN  /\ (a.data.page_url # "" /\ a.data.page_url = b.data.page_url) =>
                  fn_result[1] = fn_result[2]
            /\ (a.data.page_url = "" /\ b.data.page_url = "" /\ has_person(a)
                    /\ same_person) =>
                  fn_result[1] = fn_result[2]

\* Two records from different pages, no page URL, the name and the address
\* written differently: one record_id.
C13_Witness ==
    /\ pc = "called"
    /\ fn_args.fn = "record_id"
    /\ fn_args.args[1].data = Data("", "Ann ", "ANN@X.ORG")
    /\ fn_args.args[2].data = Data("", "ann", "ann@x.org")
    /\ fn_args.args[1].source_url # fn_args.args[2].source_url
    /\ fn_result[1] = fn_result[2]

\* What decides the normal form of a URL: its path segments and its query,
\* lower-cased.  The fragment and a trailing slash do not (the root path is
\* "/" with or without one).
NormalForm(u) ==
    [segs |-> [i \in DOMAIN u.segs |-> Lower(u.segs[i])],
     query |-> [i \in DOMAIN u.query |-> Param(Lower(u.query[i].k), Lower(u.query[i].v))]]

\* C14: the tasks created for two URLs have the same task ID if the URLs
\* have the same normal form (lower-cased, fragment stripped, trailing slash
\* collapsed, the root path kept as "/"), and different task IDs otherwise.
C14_TaskIdByNormalForm ==
    (pc = "called" /\ fn_args.fn = "set_task_id") =>
        ((NormalForm(fn_args.args[1]) = NormalForm(fn_args.args[2]))
            <=> (fn_result[1] = fn_result[2]))

\* Two URLs that differ in case, in a trailing slash before a query string
\* and in a fragment: one task ID.
C14_Witness ==
    /\ pc = "called"
    /\ fn_args.fn = "set_task_id"
    /\ fn_args.args[1] = Url(<<"People">>, TRUE, <<Param("page", "2")>>, "top")
    /\ fn_args.args[2] = Url(<<"people">>, FALSE, <<Param("page", "2")>>, "")
    /\ fn_result[1] = fn_result[2]

\* The markup signals of a page, as the claim words them.
SignalRelNext(tree) ==
    \/ \E i \in DOMAIN tree.anchors : tree.anchors[i].rel_next
    \/ tree.link_next.kind # "none"

SignalNumbered(tree) ==
    Cardinality({i \in DOMAIN tree.anchors :
                    /\ tree.anchors[i].in_pag
                    /\ Strip(tree.anchors[i].text) \in {"1", "2", "3"}}) >= 2

\* C15: detect_strategy is first-match-wins: a page with a rel="next" link
\* is NEXT_LINK whatever else it has; otherwise a page with a pagination
\* container of at least two numeric links is NUMBERED; otherwise a page with
\* a load-more control is INFINITE_SCROLL; otherwise a later rule decides
\* (CURSOR or NONE).
C15_FirstMatchWins ==
    (pc = "called" /\ fn_args.fn = "detect_strategy") =>
        LET tree == fn_args.args[1]
        IN  /\ SignalRelNext(tree) => fn_result = "next_link"
            /\ (~SignalRelNext(tree) /\ SignalNumbered(tree)) => fn_result = "numbered"
            /\ (~SignalRelNext(tree) /\ ~SignalNumbered(tree) /\ tree.load_more) =>
                  fn_result = "infinite_scroll"
            /\ (~SignalRelNext(tree) /\ ~SignalNumbered(tree) /\ ~tree.load_more) =>
                  fn_result \in {"cursor", "none"}

\* A page with a numbered container, a load-more control and a rel="next"
\* link is classified NEXT_LINK.
C15_Witness ==
    /\ pc = "called"
    /\ fn_args.fn = "detect_strategy"
    /\ SignalRelNext(fn_args.args[1])
    /\ SignalNumbered(fn_args.args[1])
    /\ fn_args.args[1].load_more
    /\ fn_result = "next_link"

\* C16: a crawl of the two-page site A over a store without events that is
\* not cut short (robots.txt
\* allows the start URL, no time budget, a page budget of two or more or none)
\* returns with five records handed to the writer, no two of them equal, and
\* pages_fetched = 2.
C16_ScenarioA ==
    (/\ site \in {"A", "A_links"}
     /\ n_prior = 0
     /\ pc = "returned"
     /\ metadata.completed_at # -1
     /\ max_pages # 1
     /\ max_runtime = 0) =>
        /\ Len(written) = 5
        /\ Cardinality({written[i] : i \in DOMAIN written}) = 5
        /\ {written[i].name : i \in DOMAIN written} = {"cy", "di", "ed", "flo", "gus"}
        /\ metadata.records_valid = 5
        /\ metadata.pages_fetched = 2
        /\ metadata.errors = <<>>

\* The crawl of site A whose cards link profile pages has returned: the five
\* profile requests failed and the two listing pages gave the five records.
C16_Witness ==
    /\ site = "A_links"
    /\ pc = "returned"
    /\ max_pages = 0
    /\ max_runtime = 0
    /\ metadata.pages_failed = 5
    /\ metadata.pages_fetched = 2
    /\ Len(written) = 5

\* C17: the step that fetches an empty page, as a listing page or as a detail
\* page, leaves the buffer as it was and records no error (and so the page
\* adds nothing to the output, which is the buffer deduplicated).
C17_EmptyPageNoRecord ==
    [][(/\ fetch_calls' = fetch_calls + 1
        /\ last_step' \in {"list_page", "detail_page"}
        /\ last_empty') =>
          (/\ records' = records
           /\ metadata'.errors = metadata.errors
           /\ metadata'.pages_failed = metadata.pages_failed)]_vars

\* C18: with max_pages = N >= 1, pages_fetched never exceeds N, and once N
\* pages are fetched no step takes a task from the queue or calls the
\* fetcher: the only step of the loop is its exit.
C18_PageBudget ==
    [][max_pages >= 1 =>
          /\ metadata'.pages_fetched <= max_pages
          /\ (pc = "loop" /\ metadata.pages_fetched >= max_pages) =>
                (/\ task_queue' = task_queue
                 /\ fetch_calls' = fetch_calls
                 /\ events' = events
                 /\ pc' = "finalize")]_vars

\* The loop ended on the page budget with tasks still queued.
C18_Witness ==
    /\ max_pages >= 1
    /\ metadata.pages_fetched = max_pages
    /\ pc = "finalize"
    /\ task_queue # <<>>
    /\ metadata.errors = <<>>
    /\ ~(max_runtime # 0 /\ clock - start_time > max_runtime)

\* C19: when the loop stands before a dequeue with more than max_runtime
\* seconds elapsed since the crawl began, the only step is the end of the
\* loop: no task leaves the queue, no fetch is made, nothing is counted, and
\* the run goes on to its finalization, which counts no failure and records
\* no error for the tasks left in the queue.
C19_TimeBudget ==
    [][/\ (/\ pc = "loop"
            /\ max_runtime # 0
            /\ clock - start_time > max_runtime) =>
              (/\ task_queue' = task_queue
               /\ fetch_calls' = fetch_calls
               /\ events' = events
               /\ metadata' = metadata
               /\ records' = records
               /\ pc' = "finalize")
       /\ pc = "finalize" =>
              (/\ pc' = "returned"
               /\ metadata'.pages_failed = metadata.pages_failed
               /\ metadata'.pages_fetched = metadata.pages_fetched
               /\ metadata'.errors = metadata.errors
               /\ metadata'.completed_at # -1)]_vars

\* The run returned after its loop ended on the time budget: under the page
\* budget, tasks left in the queue, no failure counted, no error recorded.
C19_Witness ==
    /\ pc = "returned"
    /\ metadata.completed_at # -1
    /\ max_runtime # 0
    /\ clock - start_time > max_runtime
    /\ max_pages = 0
    /\ task_queue # <<>>
    /\ metadata.pages_failed = 0
    /\ metadata.errors = <<>>

\* C20: with no page budget and no time budget, whether force is set or not,
\* the crawl loop ends with an empty queue: once the run stands after its
\* loop, no task is left.
C20_LoopEndsQueueEmpty ==
    (/\ max_pages = 0
     /\ max_runtime = 0
     /\ pc \in {"finalize", "returned"}) =>
        task_queue = <<>>

\* C21: N acquisitions on a limiter of rate r take at least (N - r) / r
\* seconds, i.e. (N - r) * Grain ticks, counted from the construction of the
\* limiter, whenever the calls are made.
C21_MinimumDuration ==
    (pc = "limiter" /\ limiter.returned > limiter.rate) =>
        limiter.now >= (limiter.returned - limiter.rate) * Grain

\* The coroutines inside the refill-wait-deduct sequence of acquire().
InAcquire == {c \in Callers : limiter.at[c] \in {"locked", "sleeping"}}

\* C22: under every interleaving of the callers of one RateLimiter, at most
\* one of them is inside the refill-wait-deduct sequence (and it holds the
\* lock), the token count is within [0, rate], and every caller that called
\* acquire() returns from it.
C22_SerializedAcquire ==
    /\ [](pc = "limiter" =>
            /\ Cardinality(InAcquire) <= 1
            /\ \A c \in InAcquire : limiter.owner = c
            /\ limiter.tokens >= 0
            /\ limiter.tokens <= limiter.rate * Grain)
    /\ \A c \in Callers :
          (pc = "limiter" /\ limiter.at[c] \in {"waiting", "locked", "sleeping"})
              ~> (limiter.at[c] = "returned")

\* One caller sleeps inside acquire() while the other waits for the lock.
C22_Witness ==
    /\ pc = "limiter"
    /\ limiter.at[1] = "sleeping"
    /\ limiter.at[2] = "waiting"
    /\ limiter.returned >= 2

\* The failures the retry policy calls transient: network error, timeout,
\* 5xx (and the rate-limiting status 429, which is not a permanent failure).
Transient(answer) ==
    \/ answer.kind \in {"network", "timeout"}
    \/ answer.kind = "response" /\ answer.status \in (500..599) \cup {429}

\* C23: on both fetch paths an attempt is followed by another one only if it
\* failed transiently, and a fetch whose first attempt fails otherwise (a
\* 4xx other than 429, an error of another kind) fails after that one
\* attempt.
C23_RetryOnlyTransient ==
    (pc = "called" /\ fn_args.fn = "fetch") =>
        LET answers == fn_args.args[2]
        IN  /\ \A n \in 1..(fn_result.attempts - 1) : Transient(answers[n])
            /\ (~Transient(answers[1]) /\ answers[1] # Answer("response", 200)) =>
                  (fn_result.raised /\ fn_result.attempts = 1)

\* C24: on both fetch paths a fetch whose last response has a status outside
\* 2xx fails, and the crawl loop treats the page as a failed fetch: it is not
\* counted, not logged as page_fetched and not extracted.
C24_Non2xxFails ==
    (/\ pc = "called"
     /\ fn_args.fn = "fetch"
     /\ fn_args.args[2][fn_result.attempts].kind = "response"
     /\ fn_result.status \notin 200..299) =>
        (fn_result.raised /\ fn_result.page = "page_fetch_failed")

\* C25: whatever the augmenter returns, every field the heuristics resolved
\* to a non-empty value has that value in the record kept for the page.
C25_HeuristicsNotOverwritten ==
    (pc = "called" /\ fn_args.fn = "hybrid_extract") =>
        /\ ~fn_result.raised
        /\ \A f \in DOMAIN fn_args.args[2] :
              fn_args.args[2][f] # "" => fn_result.value[f] = fn_args.args[2][f]

\* The augmenter answered with another name and an address: the record
\* keeps the name of the heuristics and takes the address.
C25_Witness ==
    /\ pc = "called"
    /\ fn_args.fn = "hybrid_extract"
    /\ fn_args.args[2].name = "Ann "
    /\ fn_args.args[4] = Reply("object", Data("", "Bob", "ANN@X.ORG"))
    /\ fn_result.value.name = "Ann "
    /\ fn_result.value.email = "ANN@X.ORG"

\* The outcomes of the augmenter that mean "no augmentation".
NoAugmentation(aug, reply) ==
    \/ ~aug.present
    \/ ~aug.enabled
    \/ aug.calls_made >= aug.budget
    \/ reply.kind \in {"raises", "malformed", "not_object", "no_content"}

\* C26: when the augmenter is absent or without a client, has used up its
\* budget, meets an error of the remote service or gets a response that is
\* no JSON object, no exception leaves the extraction and the record is the
\* heuristic record.
C26_NoAugmentation ==
    (/\ pc = "called"
     /\ fn_args.fn = "hybrid_extract"
     /\ NoAugmentation(fn_args.args[1], fn_args.args[4])) =>
        /\ ~fn_result.raised
        /\ fn_result.value = fn_args.args[2]

\* The remote call raised while a required field was missing.
C26_Witness ==
    /\ pc = "called"
    /\ fn_args.fn = "hybrid_extract"
    /\ fn_args.args[1] = Augmenter(TRUE, TRUE, 0, 1)
    /\ fn_args.args[2].email = ""
    /\ fn_args.args[3] = {"name", "email"}
    /\ fn_args.args[4].kind = "raises"
    /\ ~fn_result.raised
    /\ fn_result.value = fn_args.args[2]

\* C27: after any interleaving of the log_event calls of two runs on one
\* store, is_task_completed(r, k) is true exactly when one of the calls was
\* made with run ID r and key k: a call of the other run, or for another
\* key, does not make it true.
C27_CompletedPerRun ==
    (pc = "called" /\ fn_args.fn = "is_task_completed") =>
        LET log_calls == fn_args.args[1]
            r == fn_args.args[2]
            k == fn_args.args[3]
        IN  fn_result <=>
              (\E i \in DOMAIN log_calls : log_calls[i].run_id = r /\ log_calls[i].key = k)

\* The other run logged the page, and this run another page: not completed.
C27_Witness ==
    /\ pc = "called"
    /\ fn_args.fn = "is_task_completed"
    /\ fn_args.args[2] = "r1"
    /\ fn_args.args[3] = task_id(L)
    /\ \E i \in DOMAIN fn_args.args[1] :
          fn_args.args[1][i] = Event("r2", "page_fetched", task_id(L))
    /\ \E i \in DOMAIN fn_args.args[1] :
          fn_args.args[1][i] = Event("r1", "page_fetched", task_id(P2))
    /\ fn_result = FALSE

\* C28: the title resolve_all_fields returns is never equal, letter case
\* aside, to the name it returns, whether the jobTitle node or a class
\* selector produced it.
C28_TitleIsNotName ==
    (pc = "called" /\ fn_args.fn = "resolve_all_fields" /\ fn_result.title # "") =>
        Lower(fn_result.title) # Lower(fn_result.name)

\* C29: a page whose [itemprop="name"] node reads "Dr. Jane Doe" resolves
\* name to "Dr. Jane Doe", whatever its h1 and meta tags contain.
C29_ItempropNameFirst ==
    (/\ pc = "called"
     /\ fn_args.fn = "resolve_all_fields"
     /\ fn_args.args[1].itemprop_name = "Dr. Jane Doe") =>
        fn_result.name = "Dr. Jane Doe"

\* The page's task ID was logged under this run ID before the run.
LoggedBefore(u) ==
    \E i \in 1..n_prior : events[i].run_id = run_id /\ events[i].key = task_id(u)

\* The run fetched the page (on site A no request for a page it serves fails).
FetchedNow(u) == \E i \in Logged : events[i].key = task_id(u)

\* C30: a run on site A with force = false and no budget, over a store that
\* holds events of its run ID for some of the pages, ends having fetched
\* the pages without an event (both are reachable from the start URL) and
\* none of the pages with one.
C30_ResumeFetchesTheRest ==
    (/\ site = "A"
     /\ pc \in {"returned", "raised"}
     /\ last_step # "denied"
     /\ ~force
     /\ max_pages = 0
     /\ max_runtime = 0) =>
        \A u \in {L, P2} : FetchedNow(u) <=> ~LoggedBefore(u)

\* C31: a listing page classified without a hint, on which no earlier rule
\* matches (no rel="next", no numbered container, no load-more control), is
\* CURSOR if the URL of that page carries a cursor, after or offset
\* parameter and NONE if it does not, whatever the start URL of the crawl.
C31_CursorByPageUrl ==
    (/\ pc = "called"
     /\ fn_args.fn = "_extract_from_list_page"
     /\ fn_args.args[1].pagination_strategy = ""
     /\ ~SignalRelNext(fn_args.args[2])
     /\ ~SignalNumbered(fn_args.args[2])
     /\ ~fn_args.args[2].load_more) =>
        fn_result.strategy =
            IF HasCursorParam(fn_args.args[4].query) THEN "cursor" ELSE "none"

\* C32: in a crawl with page budget max_pages, a listing page handled as
\* NUMBERED adds at most max_pages - 1 pagination tasks to the queue.
C32_NumberedCapped ==
    (/\ pc = "called"
     /\ fn_args.fn = "_extract_from_list_page"
     /\ fn_result.strategy = "numbered"
     /\ fn_args.args[6] # 0) =>
        Len(fn_result.tasks) <= fn_args.args[6] - 1

\* C33: on one listing page, extraction under NEXT_LINK returns at most one
\* task and under CURSOR at most one task; under INFINITE_SCROLL and NONE it
\* returns no task and leaves the seen-URL set as it was.
C33_AtMostOneTask ==
    (pc = "called" /\ fn_args.fn = "_extract_from_list_page") =>
        /\ fn_result.strategy \in {"next_link", "cursor"} => Len(fn_result.tasks) <= 1
        /\ fn_result.strategy \in {"infinite_scroll", "none"} =>
              (fn_result.tasks = <<>> /\ fn_result.seen = fn_args.args[5])

\* Two next-like anchors with unseen URLs under NEXT_LINK: one task, the
\* first anchor's.
C33_Witness ==
    /\ pc = "called"
    /\ fn_args.fn = "_extract_from_list_page"
    /\ fn_result.strategy = "next_link"
    /\ Len(fn_args.args[2].anchors) = 2
    /\ \A i \in 1..2 :
          /\ Lower(Strip(fn_args.args[2].anchors[i].text)) = "next"
          /\ ~fn_args.args[2].anchors[i].rel_next
          /\ SeenKey(make_absolute_url(fn_args.args[3], fn_args.args[2].anchors[i].href))
                \notin fn_args.args[5]
    /\ fn_args.args[2].anchors[1].href # fn_args.args[2].anchors[2].href
    /\ Len(fn_result.tasks) = 1
    /\ fn_result.tasks[1].url =
          make_absolute_url(fn_args.args[3], fn_args.args[2].anchors[1].href)

\* No listing task stands before a detail task in the sequence.
DetailsFirst(tasks) ==
    \A i, j \in DOMAIN tasks : (tasks[i].depth = 0 /\ tasks[j].depth # 0) => j < i

\* C34 as claimed: the detail pages of a listing page are fetched before the
\* next listing page is, so when a listing page is fetched no detail task of
\* an earlier listing page is still waiting behind it.
C34_DetailsBeforeNextListing ==
    [][(fetch_calls' = fetch_calls + 1 /\ last_step' = "list_page") =>
          \A i \in DOMAIN task_queue : i > 1 => task_queue[i].depth = 0]_vars

\* C34: the loop takes the task at the head of the queue and appends at the
\* tail: a step of the loop that changes the queue removes its head, the
\* page a step fetches is the head's, and what a listing page appends is its
\* detail tasks followed by its next-page tasks.  So the detail pages of a
\* listing page are taken before the listing pages that page queued.
C34_Fifo ==
    [][(pc = "loop" /\ task_queue' # task_queue) =>
          /\ task_queue # <<>>
          /\ Len(task_queue') >= Len(task_queue) - 1
          /\ SubSeq(task_queue', 1, Len(task_queue) - 1) = Tail(task_queue)
          /\ DetailsFirst(SubSeq(task_queue', Len(task_queue), Len(task_queue')))
          /\ events' # events =>
                events'[Len(events')].key = Head(task_queue).task_id]_vars

\* A listing page has queued a detail task and, behind it, a next-page task.
C34_Witness ==
    /\ last_step = "list_page"
    /\ Len(task_queue) >= 2
    /\ task_queue[Len(task_queue) - 1].depth = 1
    /\ task_queue[Len(task_queue)].depth = 0
    /\ fetch_calls >= 1

\* The cap of lines 316-319 on a listing page with more links than the cap:
\* the tasks are those of the first DetailCap links that are person URLs, in
\* the order of the links.
DetailCapHolds ==
    (pc = "called" /\ fn_args.fn = "detail_tasks") =>
        /\ Len(fn_result) <= DetailCap
        /\ Len(fn_result) <= Len(fn_args.args[1])
        /\ \A i \in DOMAIN fn_result :
              /\ fn_result[i].depth = 1
              /\ \E j \in 1..DetailCap : j \in DOMAIN fn_args.args[1]
                                          /\ fn_args.args[1][j] = fn_result[i].url

\* C35: every task on the queue has depth 0 or 1; the seed and the
\* pagination tasks have depth 0, the detail tasks depth 1, and a listing
\* page queues at most DetailCap of them; a fetched page whose task has depth
\* 0 goes through item discovery and pagination, one of depth 1 or more
\* through field resolution only, and that step queues nothing.
C35_DepthDiscipline ==
    /\ [](\A i \in DOMAIN task_queue : task_queue[i].depth \in {0, 1})
    /\ [](\A i \in DOMAIN link_tasks :
            link_tasks[i].task.depth = IF link_tasks[i].via = "detail" THEN 1 ELSE 0)
    /\ [][pc = "setup" /\ pc' = "loop" => task_queue' = <<PageTask(base_url, 0)>>]_vars
    /\ [][Cardinality({i \in DOMAIN link_tasks' :
                          i > Len(link_tasks) /\ link_tasks'[i].via = "detail"})
             <= DetailCap]_vars
    /\ [][events' # events =>
             /\ Head(task_queue).depth = 0 <=> last_step' = "list_page"
             /\ Head(task_queue).depth >= 1 <=>
                   last_step' \in {"detail_page", "detail_raised"}
             /\ last_step' \in {"detail_page", "detail_raised"} =>
                   /\ task_queue' = Tail(task_queue)
                   /\ link_tasks' = link_tasks
                   /\ seen_urls' = seen_urls]_vars

\* A detail page was resolved while a pagination task waits, both queued by
\* link discovery.
C35_Witness ==
    /\ last_step = "detail_page"
    /\ task_queue # <<>>
    /\ Head(task_queue).depth = 0
    /\ \E i, j \in DOMAIN link_tasks :
          link_tasks[i].via = "detail" /\ link_tasks[j].via = "pagination"

\* The anchors a next_page_selector selects: a[href*="cursor"] selects the
\* anchors whose href holds a cursor parameter.
SelectedBy(selector, tree) ==
    {i \in DOMAIN tree.anchors :
        /\ selector = "a[href*=cursor]"
        /\ tree.anchors[i].href.kind \in {"path", "query"}
        /\ \E k \in DOMAIN tree.anchors[i].href.url.query :
              tree.anchors[i].href.url.query[k].k = "cursor"}

\* C36: on a listing page the hinted pagination strategy is the strategy
\* used and without that hint the detected one is; and with a hinted
\* next-page selector the next page queued is the one the selector's first
\* node links, not the one the heuristic search for a next link finds.
C36_HintsShortCircuit ==
    (pc = "called" /\ fn_args.fn = "_extract_from_list_page") =>
        LET hints == fn_args.args[1]
            tree == fn_args.args[2]
            start_url == fn_args.args[3]
            seen == fn_args.args[5]
            sel == SelectedBy(hints.next_page_selector, tree)
        IN  /\ fn_result.strategy =
                  IF hints.pagination_strategy # "" THEN hints.pagination_strategy
                  ELSE detect_strategy(tree, start_url)
            /\ (hints.next_page_selector # "" /\ sel # {}) =>
                  LET first == CHOOSE i \in sel : \A j \in sel : i <= j
                      u == make_absolute_url(start_url, tree.anchors[first].href)
                  IN  \A t \in DOMAIN fn_result.tasks : fn_result.tasks[t].url = u

\* C37: two URLs have the same key in the seen-URL set (utils.normalize_url)
\* exactly when they have the same task ID (models.normalize_url).
C37_NormalizersAgree ==
    (pc = "called" /\ fn_args.fn = "normalize_url") =>
        ((fn_result.seen[1] = fn_result.seen[2]) <=> (fn_result.task[1] = fn_result.task[2]))

\* The two records have the same lower-cased, trimmed value in every key
\* field.
SameKeyFields(a, b, key_fields) ==
    \A i \in DOMAIN key_fields :
        Strip(Lower(a[key_fields[i]])) = Strip(Lower(b[key_fields[i]]))

\* C38: deduplicate_records returns the records, in their order, without
\* those that have a key field and agree with an earlier record in every
\* key field: records that differ in a key field are both kept, and so is a
\* record without any key field.
C38_DropsOnlyEqualKeys ==
    (pc = "called" /\ fn_args.fn = "deduplicate_records") =>
        LET rs == fn_args.args[1]
            key_fields == fn_args.args[2]
            keep(i) == \/ KeyParts(rs[i], key_fields) = <<>>
                       \/ \A j \in 1..(i - 1) : ~SameKeyFields(rs[j], rs[i], key_fields)
            kept == SelectSeq([i \in DOMAIN rs |-> i], keep)
        IN  fn_result = [k \in DOMAIN kept |-> rs[kept[k]]]

\* The page_fetched events this run logged.
PageFetchedEvents ==
    {i \in Logged : events[i].run_id = run_id /\ events[i].kind = "page_fetched"}

C40_RequestsWithinBudget ==
    (pc = "called" /\ fn_args.fn = "extract_all") =>
        /\ fn_result.requests <= fn_args.args[1]
        /\ fn_result.llm_calls = fn_result.requests

====
